---------------------------- MODULE Spec2Model ----------------------------
(***************************************************************************)
(* Model of the fog-network health monitor.                                *)
(*                                                                         *)
(*   core/health_calculator.py   NodeHealthCalculator (tier-weighted score,*)
(*                               adaptive threshold, EMA tracking, history)*)
(*   dashboard/ema_dashboard.py  EMALiveMultiNodeDashboard.update_plot     *)
(*   core/node_dispatcher.py     get_node_sample (what it can return)      *)
(*                                                                         *)
(* Numbers.  The program computes with Python floats.  The model computes  *)
(* with exact rationals <<n, d>> (d > 0, lowest terms), so every formula   *)
(* is evaluated as written in the source; binary rounding error of the     *)
(* floats is not modelled.  round(x, 2) is modelled by Round2: the nearest *)
(* multiple of 1/100, ties to the even one.                                *)
(*                                                                         *)
(* Strings that the code takes apart (node ids, tier keys) are sequences   *)
(* of one-character strings, so startswith / in / split are computed as    *)
(* the code computes them.  Anomaly tags and criticality names are only    *)
(* compared, and stay strings.                                             *)
(*                                                                         *)
(* The wall-clock 'timestamp' field of a history record is left out: no    *)
(* operation reads it.                                                     *)
(***************************************************************************)
EXTENDS Integers, Sequences, FiniteSets, TLC

VARIABLES
    ema_beta,            \* NodeHealthCalculator.ema_beta
    node_metadata,       \* NodeHealthCalculator.node_metadata (node_id -> criticality)
    ema_health_scores,   \* NodeHealthCalculator.ema_health_scores
    ema_thresholds,      \* NodeHealthCalculator.ema_thresholds
    health_history,      \* NodeHealthCalculator.health_history
    time_step,           \* EMALiveMultiNodeDashboard.time_step
    health_histories,    \* EMALiveMultiNodeDashboard.health_histories
    cpu_histories,       \* EMALiveMultiNodeDashboard.cpu_histories
    plr_histories,       \* EMALiveMultiNodeDashboard.plr_histories
    rtt_histories,       \* EMALiveMultiNodeDashboard.rtt_histories
    titles,              \* the title last set on each panel (ax.set_title)
    node_stats,          \* fogNodeCharacterisation.node_stats
    fed,                 \* the muAndsigma_per_node calls made on the instance
    node_sample_counts,  \* fogNodeCharacterisation.node_sample_counts
    stats_file,          \* data/initialisation_node_metric.json
    iteration_counter,   \* ema_dashboard_dataset: self.iteration_counter
    ema_health,          \* ema_dashboard_dataset: self.ema_health, the nodes
                         \* with a value (the others map to None)
    threshold_histories, \* ema_dashboard_dataset: self.threshold_histories
    dataset,             \* ema_dashboard_dataset: self.dataset, a list of rows
    ret                  \* what the last operation was called with and returned

vars == <<ema_beta, node_metadata, ema_health_scores, ema_thresholds,
          health_history, time_step, health_histories, cpu_histories,
          plr_histories, rtt_histories, titles, node_stats, fed,
          node_sample_counts, stats_file, iteration_counter, ema_health,
          threshold_histories, dataset, ret>>

calcVars == <<ema_beta, node_metadata, ema_health_scores, ema_thresholds,
              health_history>>

dashVars == <<time_step, health_histories, cpu_histories, plr_histories,
              rtt_histories, titles>>

fogVars == <<node_stats, node_sample_counts, fed>>

datasetVars == <<stats_file, iteration_counter, ema_health,
                 threshold_histories, dataset>>

-----------------------------------------------------------------------------
(* Bounds of the model *)

\* at most this many history records over all nodes
MaxRecords == 2

\* get_health_history is asked for 0 .. MaxPoints points
MaxPoints == 3

\* a generator is asked for 1 .. MaxIterations iterations
MaxIterations == 2

\* a generator is given the seeds 0 .. MaxSeed
MaxSeed == 4

\* muAndsigma_per_node is called up to MaxSamples times on an instance
MaxSamples == 6

\* the dataset dashboard is followed for MaxTicks ticks
MaxTicks == 3

\* calls of the degradation with the output of the call before
MaxFeedback == 2

-----------------------------------------------------------------------------
(* Exact rational arithmetic standing for Python float arithmetic.  A value *)
(* that is needed more than once is passed as a parameter, so that it is    *)
(* evaluated once.                                                          *)

\* the one value of a set of one: a step of a function body draws what the
\* step before has computed from such a set, so that the steps are evaluated
\* one after the other, as the statements of the code are
Only(S) == CHOOSE x \in S : TRUE

Abs(i) == IF i < 0 THEN 0 - i ELSE i

RECURSIVE Gcd(_, _)
Gcd(a, b) == IF b = 0 THEN a ELSE Gcd(b, a % b)

\* n/d divided through by g, with the sign in the numerator
Reduce(n, d, g) ==
    IF d < 0 THEN <<(0 - n) \div g, (0 - d) \div g>> ELSE <<n \div g, d \div g>>

\* the rational n/d in lowest terms with a positive denominator
Q(n, d) == Reduce(n, d, Gcd(Abs(n), Abs(d)))

\* the integer i as a rational
R(i) == <<i, 1>>

Lcm(a, b) == (a \div Gcd(a, b)) * b

\* x + y over the common denominator l
AddOver(x, y, l) == Q(x[1] * (l \div x[2]) + y[1] * (l \div y[2]), l)

Add(x, y) ==
    IF x[2] = y[2] THEN Q(x[1] + y[1], x[2])
    ELSE AddOver(x, y, Lcm(x[2], y[2]))

Sub(x, y) ==
    IF x[2] = y[2] THEN Q(x[1] - y[1], x[2])
    ELSE AddOver(x, <<0 - y[1], y[2]>>, Lcm(x[2], y[2]))

\* (a1/a2) * (b1/b2), a and b being the cross-reduced factors
MulReduced(a, b) == <<a[1] * b[1], a[2] * b[2]>>

Mul(x, y) ==
    IF x[1] = 0 \/ y[1] = 0 THEN <<0, 1>>
    ELSE MulReduced(Q(x[1], y[2]), Q(y[1], x[2]))

Div(x, y) ==
    IF y[1] # 0 /\ x[1] = 0 THEN <<0, 1>>
    ELSE MulReduced(Q(x[1], y[1]), Q(y[2], x[2]))

\* x < y, compared over the common denominator l
LessOver(x, y, l) == x[1] * (l \div x[2]) < y[1] * (l \div y[2])

Less(x, y) == LessOver(x, y, Lcm(x[2], y[2]))

Leq(x, y) == ~Less(y, x)

\* Python's max(a, b) and min(a, b): the first argument wins a tie
Max(a, b) == IF Less(a, b) THEN b ELSE a

Min(a, b) == IF Less(b, a) THEN b ELSE a

\* q + r/d rounded to an integer, ties to the even one, as hundredths
RoundPick(q, r, d) ==
    Q(IF 2 * r > d \/ (2 * r = d /\ q % 2 = 1) THEN q + 1 ELSE q, 100)

\* Python's round(x, 2); the integer part is split off first
Round2(x) ==
    RoundPick(100 * (x[1] \div x[2]) + (100 * (x[1] % x[2])) \div x[2],
              (100 * (x[1] % x[2])) % x[2], x[2])

Zero == R(0)

Hundred == R(100)

One == R(1)

-----------------------------------------------------------------------------
(* Strings the code takes apart *)

\* str.startswith(c) for a one-character c
StartsWith(s, c) == Len(s) > 0 /\ s[1] = c

\* c in str, for a one-character c
Contains(s, c) == \E i \in 1..Len(s) : s[i] = c

\* str.split(c)[0]: the text before the first c (all of it when there is none)
SplitFirst(s, c) ==
    IF Contains(s, c)
    THEN LET i == CHOOSE j \in 1..Len(s) :
                      s[j] = c /\ \A k \in 1..(j - 1) : s[k] # c
         IN  SubSeq(s, 1, i - 1)
    ELSE s

L1 == <<"L", "1">>

L2 == <<"L", "2">>

L3 == <<"L", "3">>

L4 == <<"L", "4">>

L1N_01 == <<"L", "1", "N", "_", "0", "1">>

L2N_01 == <<"L", "2", "N", "_", "0", "1">>

L3N_01 == <<"L", "3", "N", "_", "0", "1">>

L4N_01 == <<"L", "4", "N", "_", "0", "1">>

\* a tier-keyed id without the N of the generated ids
L1_01 == <<"L", "1", "_", "0", "1">>

CloudDB_Server == <<"C", "l", "o", "u", "d", "D", "B", "_",
                    "S", "e", "r", "v", "e", "r">>

\* the node id calculate_health_metrics assumes when the sample has none
UNKNOWN == <<"U", "N", "K", "N", "O", "W", "N">>

-----------------------------------------------------------------------------
(* NodeHealthCalculator: static tables *)

tier_config ==
    (L1 :> [cpu_threshold |-> <<70, 1>>, plr_threshold |-> <<1, 100>>,
            rtt_threshold |-> <<100, 1>>,
            weights |-> [cpu |-> <<2, 5>>, plr |-> <<7, 20>>, rtt |-> <<1, 4>>],
            criticality_multiplier |-> <<3, 2>>]) @@
    (L2 :> [cpu_threshold |-> <<75, 1>>, plr_threshold |-> <<1, 50>>,
            rtt_threshold |-> <<120, 1>>,
            weights |-> [cpu |-> <<7, 20>>, plr |-> <<2, 5>>, rtt |-> <<1, 4>>],
            criticality_multiplier |-> <<13, 10>>]) @@
    (L3 :> [cpu_threshold |-> <<80, 1>>, plr_threshold |-> <<3, 100>>,
            rtt_threshold |-> <<150, 1>>,
            weights |-> [cpu |-> <<3, 10>>, plr |-> <<2, 5>>, rtt |-> <<3, 10>>],
            criticality_multiplier |-> <<11, 10>>]) @@
    (L4 :> [cpu_threshold |-> <<85, 1>>, plr_threshold |-> <<1, 20>>,
            rtt_threshold |-> <<200, 1>>,
            weights |-> [cpu |-> <<1, 4>>, plr |-> <<9, 20>>, rtt |-> <<3, 10>>],
            criticality_multiplier |-> <<1, 1>>])

anomaly_impact ==
    [none |-> <<1, 1>>, overload |-> <<1, 5>>, silence |-> <<0, 1>>,
     routing_loop |-> <<1, 10>>, fibre_cut |-> <<0, 1>>, drift |-> <<3, 5>>,
     intermittent_loss |-> <<2, 5>>, latency_spike |-> <<7, 10>>,
     throughput_drop |-> <<1, 2>>, offline |-> <<0, 1>>, spike |-> <<3, 10>>]

\* self.tier_config.get(tier, self.tier_config["L4"])
TierConfigGet(tier) ==
    IF tier \in DOMAIN tier_config THEN tier_config[tier] ELSE tier_config[L4]

\* a faulty variant of AnomalyImpactGet: the anomaly's impact is never applied
AnomalyImpactGet_ignored(anomaly_type) == One

\* self.anomaly_impact.get(anomaly_type, 0.5)
AnomalyImpactGet(anomaly_type) ==
    IF anomaly_type \in DOMAIN anomaly_impact
    THEN anomaly_impact[anomaly_type]
    ELSE Q(5, 10)

\* the criticality column of the node list create_node_list builds
NodeListCriticality ==
    (CloudDB_Server :> "Mission_Critical") @@ (L1N_01 :> "Ultra_High") @@
    (L2N_01 :> "High") @@ (L3N_01 :> "Medium") @@ (L4N_01 :> "Standard")

\* an empty DataFrame: no data/node_list.csv, or it could not be read
EmptyMetadata == [n \in {} |-> "Standard"]

\* _load_node_metadata: the node list when the file exists, else nothing
LoadNodeMetadata == {EmptyMetadata, NodeListCriticality}

-----------------------------------------------------------------------------
(* NodeHealthCalculator: the computations *)

get_node_tier(node_id) ==
    IF StartsWith(node_id, "L") /\ Contains(node_id, "_")
    THEN SplitFirst(node_id, "_")
    ELSE L4

\* a faulty variant of MetricScore: the lower clamp is missing
MetricScore_unclamped(value, threshold) ==
    Min(Hundred, Sub(Hundred, Mul(Div(value, threshold), Hundred)))

\* max(0, min(100, 100 - (value / threshold) * 100))
MetricScore(value, threshold) ==
    Max(Zero, Min(Hundred, Sub(Hundred, Mul(Div(value, threshold), Hundred))))

\* the three subscores under a tier's configuration
MetricScores(cpu, plr, rtt, config) ==
    [cpu |-> MetricScore(cpu, config.cpu_threshold),
     plr |-> MetricScore(plr, config.plr_threshold),
     rtt |-> MetricScore(rtt, config.rtt_threshold)]

calculate_metric_scores(cpu, plr, rtt, tier) ==
    MetricScores(cpu, plr, rtt, TierConfigGet(tier))

\* the node_adjustment of _calculate_adaptive_threshold
NodeAdjustment(metadata, node_id) ==
    IF node_id \in DOMAIN metadata
    THEN CASE metadata[node_id] = "Mission_Critical" -> R(15)
           [] metadata[node_id] = "Ultra_High" -> R(12)
           [] metadata[node_id] = "High" -> R(8)
           [] metadata[node_id] = "Medium" -> R(4)
           [] OTHER -> Zero
    ELSE Zero

\* the anomaly_adjustment of _calculate_adaptive_threshold
AnomalyAdjustment(anomaly_type) ==
    IF anomaly_type # "none" THEN R(-20) ELSE Zero

\* base_threshold + tier_adjustment + anomaly_adjustment + node_adjustment,
\* constrained to 20 .. 95
AdaptiveThreshold(criticality_multiplier, anomaly_adjustment, node_adjustment) ==
    Max(R(20), Min(R(95),
        Add(Add(Add(R(60), Mul(criticality_multiplier, R(10))),
                anomaly_adjustment),
            node_adjustment)))

calculate_adaptive_threshold(metadata, node_id, tier, anomaly_type) ==
    AdaptiveThreshold(TierConfigGet(tier).criticality_multiplier,
                      AnomalyAdjustment(anomaly_type),
                      NodeAdjustment(metadata, node_id))

\* cpu_score * weights.cpu + plr_score * weights.plr + rtt_score * weights.rtt
Weigh(scores, weights) ==
    Add(Add(Mul(scores.cpu, weights.cpu), Mul(scores.plr, weights.plr)),
        Mul(scores.rtt, weights.rtt))

\* the weighted sum of the three subscores, before the anomaly impact
WeightedSum(cpu, plr, rtt, tier) ==
    Weigh(calculate_metric_scores(cpu, plr, rtt, tier), TierConfigGet(tier).weights)

calculate_weighted_health_score(cpu, plr, rtt, tier, anomaly_type) ==
    Max(Zero, Min(Hundred,
        Mul(WeightedSum(cpu, plr, rtt, tier), AnomalyImpactGet(anomaly_type))))

\* a faulty variant of EmaStep: the weights of the two terms are swapped
EmaStep_swapped(beta, current, previous) ==
    Add(Mul(Sub(One, beta), current), Mul(beta, previous))

\* a faulty variant of EmaStep: the previous value is not damped by 1 - beta
EmaStep_undamped(beta, current, previous) ==
    Add(Mul(beta, current), previous)

\* beta * current + (1 - beta) * previous
EmaStep(beta, current, previous) ==
    Add(Mul(beta, current), Mul(Sub(One, beta), previous))

\* a faulty variant of update_ema_values: the first observation is smoothed
\* against an assumed previous value of 0
update_ema_values_smoothed_first(beta, scores, thresholds, node_id, current_score, current_threshold) ==
    IF node_id \notin DOMAIN scores
    THEN [score |-> EmaStep(beta, current_score, Zero),
          threshold |-> EmaStep(beta, current_threshold, Zero)]
    ELSE [score |-> EmaStep(beta, current_score, scores[node_id]),
          threshold |-> EmaStep(beta, current_threshold, thresholds[node_id])]

\* _update_ema_values: the new EMA score and EMA threshold of node_id
update_ema_values(beta, scores, thresholds, node_id, current_score, current_threshold) ==
    IF node_id \notin DOMAIN scores
    THEN [score |-> current_score, threshold |-> current_threshold]
    ELSE [score |-> EmaStep(beta, current_score, scores[node_id]),
          threshold |-> EmaStep(beta, current_threshold, thresholds[node_id])]

-----------------------------------------------------------------------------
(* NodeHealthCalculator: the operations *)

\* dict.get(key, default)
Get(d, key, default) == IF key \in DOMAIN d THEN d[key] ELSE default

\* list[-k:] of Python: the last k elements, and the whole list when k = 0
\* (-0 is 0, and list[0:] is the list)
LastSlice(list, k) ==
    SubSeq(list, (IF k = 0 \/ k > Len(list) THEN 0 ELSE Len(list) - k) + 1, Len(list))

\* defaultdict(list)[key]
ListAt(d, key) == IF key \in DOMAIN d THEN d[key] ELSE <<>>

\* a faulty variant of Put: the value is stored under every key
Put_every(d, key, value) == [k \in DOMAIN d \cup {key} |-> value]

\* d with d[key] = value
Put(d, key, value) ==
    [k \in DOMAIN d \cup {key} |-> IF k = key THEN value ELSE d[k]]

\* calculate_health_metrics, the part that reads no state: the sample's
\* fields with their defaults, the tier, the raw threshold and the raw score
Scored(metadata, node_id, cpu, plr, rtt, anomaly_type, tier) ==
    [node_id |-> node_id,
     anomaly_type |-> anomaly_type,
     tier |-> tier,
     health_threshold |->
         calculate_adaptive_threshold(metadata, node_id, tier, anomaly_type),
     weighted_health_score |->
         calculate_weighted_health_score(cpu, plr, rtt, tier, anomaly_type),
     subscores |-> calculate_metric_scores(cpu, plr, rtt, tier)]

\* calculate_health_metrics, from the EMA values on: the record appended to
\* the node's history, the state after the call and the dict returned
Recorded(c, raw, ema, health_status) ==
    [scores |-> Put(c.scores, raw.node_id, ema.score),
     thresholds |-> Put(c.thresholds, raw.node_id, ema.threshold),
     history |-> Put(c.history, raw.node_id,
                     Append(ListAt(c.history, raw.node_id),
                            [raw_score |-> raw.weighted_health_score,
                             raw_threshold |-> raw.health_threshold,
                             ema_score |-> ema.score,
                             ema_threshold |-> ema.threshold,
                             status |-> health_status])),
     result |-> [health_threshold |-> Round2(raw.health_threshold),
                 weighted_health_score |-> Round2(raw.weighted_health_score),
                 ema_health_score |-> Round2(ema.score),
                 ema_health_threshold |-> Round2(ema.threshold),
                 health_status |-> Round2(health_status),
                 tier |-> raw.tier,
                 cpu_subscore |-> Round2(raw.subscores.cpu),
                 plr_subscore |-> Round2(raw.subscores.plr),
                 rtt_subscore |-> Round2(raw.subscores.rtt),
                 anomaly_type |-> raw.anomaly_type]]

\* health_status = ema_score - ema_threshold
Tracked(c, raw, ema) == Recorded(c, raw, ema, Sub(ema.score, ema.threshold))

\* calculate_health_metrics on the calculator state c = [scores, thresholds,
\* history] with the raw values of the sample
Updated(beta, c, raw) ==
    Tracked(c, raw,
            update_ema_values(beta, c.scores, c.thresholds, raw.node_id,
                              raw.weighted_health_score, raw.health_threshold))

\* the raw values of a sample given as a dict: every field has a default
ScoredData(metadata, node_data) ==
    Scored(metadata,
           Get(node_data, "node_id", UNKNOWN),
           Get(node_data, "cpu", R(50)),
           Get(node_data, "plr", <<1, 100>>),
           Get(node_data, "rtt", R(100)),
           Get(node_data, "anomaly", "none"),
           get_node_tier(Get(node_data, "node_id", UNKNOWN)))

\* calculate_health_metrics(node_data): the state after the call and what it
\* returns
CalculateHealthMetrics(beta, metadata, c, node_data) ==
    Updated(beta, c, ScoredData(metadata, node_data))

\* get_health_history(node_id, max_points)
GetHealthHistory(history, node_id, max_points) ==
    LastSlice(Get(history, node_id, <<>>), max_points)

None == [none |-> TRUE]

\* get_health_status(node_id)
GetHealthStatus(scores, thresholds, node_id) ==
    IF node_id \notin DOMAIN scores
    THEN None
    ELSE [ema_health_score |-> Round2(scores[node_id]),
          ema_health_threshold |-> Round2(thresholds[node_id]),
          status |-> Round2(Sub(scores[node_id], thresholds[node_id]))]

\* the calculator's mutable state as one record
Calc == [scores |-> ema_health_scores, thresholds |-> ema_thresholds,
         history |-> health_history]

\* the number of history records over all nodes
RECURSIVE TotalLen(_, _)
TotalLen(h, keys) ==
    IF keys = {} THEN 0
    ELSE Len(h[CHOOSE x \in keys : TRUE]) + TotalLen(h, keys \ {CHOOSE x \in keys : TRUE})

TotalRecords == TotalLen(health_history, DOMAIN health_history)

-----------------------------------------------------------------------------
(* Inputs *)

\* ema_beta values a calculator is constructed with: the default 0.3, and two
\* outside (0,1), which the constructor accepts as well
BetaSet == {<<3, 10>>, <<3, 2>>, <<5, 2>>}

NodeIds == {L1N_01, L2N_01, L3N_01, L4N_01, L1_01, CloudDB_Server}

DefaultSample ==
    [cpu |-> <<50, 1>>, plr |-> <<1, 100>>, rtt |-> <<100, 1>>, anomaly |-> "none"]

\* cpu, plr, rtt and anomaly of the samples the calculator is given
Samples ==
    { DefaultSample,
      [cpu |-> <<0, 1>>, plr |-> <<0, 1>>, rtt |-> <<0, 1>>, anomaly |-> "drift"],
      [cpu |-> <<85, 1>>, plr |-> <<1, 20>>, rtt |-> <<200, 1>>, anomaly |-> "none"],
      [cpu |-> <<100, 1>>, plr |-> <<1, 5>>, rtt |-> <<400, 1>>, anomaly |-> "overload"],
      [cpu |-> <<0, 1>>, plr |-> <<1, 1>>, rtt |-> <<999, 1>>, anomaly |-> "silence"],
      [cpu |-> <<153, 2>>, plr |-> <<0, 1>>, rtt |-> <<2501, 50>>, anomaly |-> "none"],
      [cpu |-> <<20, 1>>, plr |-> <<1, 250>>, rtt |-> <<60, 1>>, anomaly |-> "L4_mild"] }

\* a sample as the dict calculate_health_metrics is given
NodeData(node_id, sample) ==
    [node_id |-> node_id, cpu |-> sample.cpu, plr |-> sample.plr,
     rtt |-> sample.rtt, anomaly |-> sample.anomaly]

\* the dicts calculate_health_metrics is called with; the empty dict has no
\* key at all, so every default of the .get calls applies
NodeDatas == {NodeData(n, s) : n \in NodeIds, s \in Samples} \cup {<<>>}

AllNodeIds == NodeIds \cup {UNKNOWN}

\* the nodes clients ask get_health_history and get_health_status about
QueryNodeIds == {L4N_01, UNKNOWN}


-----------------------------------------------------------------------------
(* ema_dashboard.EMALiveMultiNodeDashboard *)

\* self.node_ids: the nodes the dashboard was constructed with
node_ids == <<L1N_01, L4N_01>>

\* self.maxlen
maxlen == 100

\* ema_dashboard_dataset: self.all_node_ids, the nodes the dataset dashboard
\* was constructed with
all_node_ids == <<CloudDB_Server, L1N_01, L4N_01>>

\* node_id[:3]
Prefix3(node_id) == SubSeq(node_id, 1, IF Len(node_id) < 3 THEN Len(node_id) ELSE 3)

\* What get_node_sample can return for a node of the node list: one row of
\* the tier's generator (values inside the tier's clip range with anomaly
\* "none", or an anomaly's override values), or the default sample.  The L1
\* generator's fault rate is 0.0, so it injects no anomaly.
GetNodeSample(node_id) ==
    CASE Prefix3(node_id) = <<"L", "1", "N">> ->
           { [cpu |-> <<10, 1>>, plr |-> <<0, 1>>, rtt |-> <<25, 1>>, anomaly |-> "none"],
             [cpu |-> <<25, 1>>, plr |-> <<1, 100>>, rtt |-> <<70, 1>>, anomaly |-> "none"] }
      [] Prefix3(node_id) = <<"L", "4", "N">> ->
           { [cpu |-> <<50, 1>>, plr |-> <<1, 100>>, rtt |-> <<100, 1>>, anomaly |-> "none"],
             [cpu |-> <<153, 2>>, plr |-> <<0, 1>>, rtt |-> <<2501, 50>>, anomaly |-> "none"],
             [cpu |-> <<100, 1>>, plr |-> <<1, 5>>, rtt |-> <<400, 1>>, anomaly |-> "overload"],
             [cpu |-> <<0, 1>>, plr |-> <<1, 1>>, rtt |-> <<999, 1>>, anomaly |-> "silence"] }
      [] OTHER -> { DefaultSample }

\* the panel title update_plot chooses from the returned (rounded) metrics
PanelTitle(health_metrics) ==
    IF Less(health_metrics.ema_health_score, health_metrics.ema_health_threshold)
    THEN "FAULTY"
    ELSE IF Less(R(80), health_metrics.weighted_health_score) THEN "Health (GOOD)"
    ELSE IF Less(R(60), health_metrics.weighted_health_score) THEN "Health (FAIR)"
    ELSE "Health (POOR)"

\* hist_dict[node_id].append(value); hist_dict[node_id] = hist_dict[node_id][-maxlen:]
Push(hist_dict, node_id, value) ==
    Put(hist_dict, node_id, LastSlice(Append(ListAt(hist_dict, node_id), value), maxlen))

\* the dashboard's and its calculator's mutable state as one record
Dash == [calc |-> Calc, health |-> health_histories, cpu |-> cpu_histories,
         plr |-> plr_histories, rtt |-> rtt_histories, titles |-> titles,
         last |-> None]

\* update_plot's loop body after the call of calculate_health_metrics, out
\* being what the call changed and returned
Plotted(d, node_id, sample, out) ==
    [calc |-> [scores |-> out.scores, thresholds |-> out.thresholds,
               history |-> out.history],
     health |-> Push(d.health, node_id, Div(out.result.ema_health_score, Hundred)),
     cpu |-> Push(d.cpu, node_id, Sub(One, Div(sample.cpu, Hundred))),
     plr |-> Push(d.plr, node_id, Sub(One, Min(Div(sample.plr, <<1, 5>>), One))),
     rtt |-> Push(d.rtt, node_id, Sub(One, Min(Div(sample.rtt, R(400)), One))),
     titles |-> Put(d.titles, node_id, PanelTitle(out.result)),
     last |-> [node_data |-> NodeData(node_id, sample), result |-> out.result]]

\* one pass of update_plot's loop body, for a node and the sample the
\* dispatcher returned for it
PlotNode(beta, metadata, d, node_id, sample) ==
    Plotted(d, node_id, sample,
            CalculateHealthMetrics(beta, metadata, d.calc, NodeData(node_id, sample)))

\* update_plot's loop over node_ids[i..], samples[i] being the sample of node_ids[i]
RECURSIVE PlotLoop(_, _, _, _, _)
PlotLoop(beta, metadata, d, samples, i) ==
    IF i > Len(node_ids) THEN d
    ELSE PlotLoop(beta, metadata,
                  PlotNode(beta, metadata, d, node_ids[i], samples[i]),
                  samples, i + 1)

\* the samples the dispatcher can return in one tick, one per displayed node
TickSamples ==
    {s \in [1..Len(node_ids) ->
               UNION {GetNodeSample(node_ids[i]) : i \in 1..Len(node_ids)}] :
        \A i \in 1..Len(node_ids) : s[i] \in GetNodeSample(node_ids[i])}

-----------------------------------------------------------------------------
(* The state machine *)

Init ==
    /\ ema_beta \in BetaSet
    /\ node_metadata \in LoadNodeMetadata
    /\ ema_health_scores = <<>>
    /\ ema_thresholds = <<>>
    /\ health_history = <<>>
    /\ time_step = 0
    /\ health_histories = <<>>
    /\ cpu_histories = <<>>
    /\ plr_histories = <<>>
    /\ rtt_histories = <<>>
    /\ titles = [n \in {node_ids[i] : i \in 1..Len(node_ids)} |-> "Health Metrics"]
    /\ node_stats = <<>>
    /\ fed = <<>>
    /\ node_sample_counts = <<>>
    /\ stats_file = [exists |-> FALSE]
    /\ iteration_counter = 0
    /\ ema_health = <<>>
    /\ threshold_histories = <<>>
    /\ dataset = <<>>
    /\ ret = [op |-> "init"]

\* the calculator's state and the return value after a call
Called(node_data, out) ==
    /\ ema_health_scores' = out.scores
    /\ ema_thresholds' = out.thresholds
    /\ health_history' = out.history
    /\ ret' = [op |-> "calculate_health_metrics", node_data |-> node_data,
               result |-> out.result]

\* a client calls calculate_health_metrics(node_data)
calculate_health_metrics ==
    \E node_data \in NodeDatas :
        /\ TotalRecords < MaxRecords
        /\ Called(node_data,
                  CalculateHealthMetrics(ema_beta, node_metadata, Calc, node_data))
        /\ UNCHANGED <<ema_beta, node_metadata>>
        /\ UNCHANGED dashVars
        /\ UNCHANGED fogVars
        /\ UNCHANGED datasetVars

\* a client calls get_health_history(node_id, max_points)
get_health_history ==
    \E node_id \in QueryNodeIds, max_points \in 0..MaxPoints :
        /\ ret' = [op |-> "get_health_history", node_id |-> node_id,
                   max_points |-> max_points,
                   result |-> GetHealthHistory(health_history, node_id, max_points)]
        /\ UNCHANGED calcVars
        /\ UNCHANGED dashVars
        /\ UNCHANGED fogVars
        /\ UNCHANGED datasetVars

\* a client calls get_health_status(node_id)
get_health_status ==
    \E node_id \in QueryNodeIds :
        /\ ret' = [op |-> "get_health_status", node_id |-> node_id,
                   result |-> GetHealthStatus(ema_health_scores, ema_thresholds, node_id)]
        /\ UNCHANGED calcVars
        /\ UNCHANGED dashVars
        /\ UNCHANGED fogVars
        /\ UNCHANGED datasetVars

\* the dashboard's and the calculator's state after a tick
Ticked(d) ==
    /\ time_step' = time_step + 1
    /\ ema_health_scores' = d.calc.scores
    /\ ema_thresholds' = d.calc.thresholds
    /\ health_history' = d.calc.history
    /\ health_histories' = d.health
    /\ cpu_histories' = d.cpu
    /\ plr_histories' = d.plr
    /\ rtt_histories' = d.rtt
    /\ titles' = d.titles
    /\ ret' = [op |-> "update_plot", node_data |-> d.last.node_data,
               result |-> d.last.result]

\* the animation timer calls update_plot(frame)
update_plot ==
    \E samples \in TickSamples :
        /\ TotalRecords + Len(node_ids) <= MaxRecords
        /\ Ticked(PlotLoop(ema_beta, node_metadata, Dash, samples, 1))
        /\ UNCHANGED <<ema_beta, node_metadata>>
        /\ UNCHANGED fogVars
        /\ UNCHANGED datasetVars

Next ==
    \/ calculate_health_metrics
    \/ update_plot

\* a calculator of any construction, called by its clients and by the dashboard
Spec == Init /\ [][Next]_vars

\* NodeHealthCalculator(): the default ema_beta, and no data/node_list.csv
InitDefault ==
    /\ Init
    /\ ema_beta = <<3, 10>>
    /\ node_metadata = EmptyMetadata

NextQuery ==
    \/ calculate_health_metrics
    \/ get_health_history
    \/ get_health_status

\* a default calculator whose clients also read it back
SpecQuery == InitDefault /\ [][NextQuery]_vars

-----------------------------------------------------------------------------
(* core/node_dispatcher.py: the tier generators *)

\* q + r/d rounded to an integer, ties to the even one, over scale
RoundPickTo(q, r, d, scale) ==
    Q(IF 2 * r > d \/ (2 * r = d /\ q % 2 = 1) THEN q + 1 ELSE q, scale)

\* q + r/d shifted by the decimal digits left, one digit at a time
RECURSIVE RoundShift(_, _, _, _, _)
RoundShift(q, r, d, left, scale) ==
    IF left = 1 THEN RoundPickTo(q, r, d, scale)
    ELSE RoundShift(10 * q + (10 * r) \div d, (10 * r) % d, d, left \div 10,
                    scale)

\* Python's round(x, k) for scale = 10^k
RoundTo(x, scale) ==
    RoundShift(x[1] \div x[2], x[1] % x[2], x[2], scale, scale)

\* the decimal digits as characters
Digits10 == <<"0", "1", "2", "3", "4", "5", "6", "7", "8", "9">>

\* np.clip(x, lo, hi)
Clip(x, lo, hi) == Min(Max(x, lo), hi)

\* a datetime, as seconds since some epoch
Time(t) == [seconds |-> t]

\* datetime.isoformat(): one string per datetime
IsoFormat(time) == [iso |-> time.seconds]

\* base_time + timedelta(seconds=30 * t)
PlusSteps(time, t) == Time(time.seconds + 30 * t)

\* base_time or datetime.now(timezone.utc), now being what the clock shows
\* the clock's reading whatever was passed
BaseTimeOr_now(base_time, now) == now

\* base_time or datetime.now(timezone.utc)
BaseTimeOr(base_time, now) == IF base_time = None THEN now ELSE base_time

\* The draws a np.random.RandomState makes.  A stream is a fixed function of
\* its seed; the table stands for the generator's streams.  z: standard
\* normal draws, b: a beta draw, u: the random() compared with fault_rate,
\* choice: the index rng.choice picks, v: uniform draws in [0,1), flag: a
\* choice([True, False]), trend: the three uniform draws made per node.
RngStreams ==
    << [z |-> <<R(0), R(0), R(0), R(0), R(0)>>, b |-> <<1, 100>>, u |-> <<1, 2>>,
        choice |-> 1, v |-> <<R(0), R(0)>>, flag |-> TRUE,
        trend |-> <<<<1, 2>>, <<1, 2>>, <<1, 2>>>>],
       [z |-> <<R(-3), R(-2), R(0), R(-3), R(-1)>>, b |-> <<0, 1>>, u |-> <<1, 100>>,
        choice |-> 1, v |-> <<<<1, 2>>, <<1, 4>>>>, flag |-> FALSE,
        trend |-> <<R(0), R(0), R(0)>>],
       [z |-> <<R(3), R(2), R(2), R(3), R(1)>>, b |-> <<1, 2>>, u |-> <<1, 200>>,
        choice |-> 2, v |-> <<<<3, 4>>, <<1, 2>>>>, flag |-> TRUE,
        trend |-> <<<<9, 10>>, <<1, 10>>, <<1, 2>>>>],
       [z |-> <<<<1, 2>>, <<-1, 2>>, R(1), <<-1, 4>>, <<1, 2>>>>, b |-> <<1, 50>>,
        u |-> <<1, 1000>>, choice |-> 3, v |-> <<<<1, 10>>, <<9, 10>>>>,
        flag |-> FALSE, trend |-> <<<<1, 4>>, <<3, 4>>, <<1, 10>>>>],
       [z |-> <<R(-1), <<1, 2>>, R(-1), R(1), R(-2)>>, b |-> <<1, 20>>,
        u |-> <<1, 500>>, choice |-> 4, v |-> <<<<1, 4>>, <<3, 4>>>>,
        flag |-> TRUE, trend |-> <<<<3, 4>>, <<1, 4>>, <<9, 10>>>>],
       [z |-> <<R(3), R(3), R(3), R(3), R(3)>>, b |-> <<1, 1>>,
        u |-> <<9, 10>>, choice |-> 2, v |-> <<<<1, 2>>, <<1, 2>>>>,
        flag |-> FALSE, trend |-> <<R(1), R(1), R(1)>>] >>

\* np.random.RandomState(seed) raises ValueError for a negative seed
SeedOK(seed) == seed >= 0

\* the draws RandomState(seed) makes in iteration t of a generator's loop
Draws(seed, t) == RngStreams[((seed + 3 * t) % Len(RngStreams)) + 1]

\* the per-node draws RandomState(seed) makes before the loop
Trends(seed) == RngStreams[(seed % Len(RngStreams)) + 1].trend

\* rng.uniform(lo, hi) for the unit draw v
Uniform(lo, hi, v) == Add(lo, Mul(Sub(hi, lo), v))

\* a + b * c
AddMul(a, b, c) == Add(a, Mul(b, c))

\* np.sin(x) and np.cos(x) of the cyclic terms, to three decimals, by
\* iteration t: 8*sin(0.2t) + 3*cos(0.3t), 20*sin(0.1t), 5*sin(0.1t), 10*sin(0.15t)
Cycles ==
    [l4_cpu |-> <<<<3, 1>>, <<4455, 1000>>, <<5591, 1000>>, <<6382, 1000>>>>,
     l4_rtt |-> <<<<0, 1>>, <<1997, 1000>>, <<3973, 1000>>, <<5910, 1000>>>>,
     l3_cpu |-> <<<<0, 1>>, <<499, 1000>>, <<993, 1000>>, <<1478, 1000>>>>,
     l3_rtt |-> <<<<0, 1>>, <<1494, 1000>>, <<2955, 1000>>, <<4350, 1000>>>>,
     none |-> <<<<0, 1>>, <<0, 1>>, <<0, 1>>, <<0, 1>>>>]

\* the prefixes get_node_sample dispatches on
L1N == <<"L", "1", "N">>

L2N == <<"L", "2", "N">>

L3N == <<"L", "3", "N">>

L4N == <<"L", "4", "N">>

\* What differs between generate_l1_node_samples .. generate_l4_node_samples:
\* the seed stride per node, the base values, the half-widths of the trend
\* draws, the standard deviations of the noise, the clip ranges, the default
\* fault rate and anomaly types, and the cyclic terms.
generator_config ==
    (L1N :> [stride |-> 1, base |-> <<<<30, 1>>, <<1, 1000>>, <<70, 1>>>>,
             trend |-> <<<<1, 20>>, <<1, 20000>>, <<1, 10>>>>,
             sd |-> <<<<2, 1>>, <<1, 2>>, <<1, 20000>>, <<3, 1>>, <<1, 1>>>>,
             beta |-> <<1, 100>>,
             lo |-> <<<<10, 1>>, <<0, 1>>, <<25, 1>>>>,
             hi |-> <<<<25, 1>>, <<1, 100>>, <<70, 1>>>>,
             fault_rate |-> <<0, 1>>,
             anomaly_types |-> <<"overload", "silence", "routing_loop", "fibre_cut">>,
             cpu_cycle |-> "none", rtt_cycle |-> "none"]) @@
    (L2N :> [stride |-> 10, base |-> <<<<45, 1>>, <<1, 500>>, <<85, 1>>>>,
             trend |-> <<<<3, 20>>, <<1, 5000>>, <<3, 10>>>>,
             sd |-> <<<<8, 1>>, <<3, 1>>, <<3, 10000>>, <<12, 1>>, <<4, 1>>>>,
             beta |-> <<3, 50>>,
             lo |-> <<<<10, 1>>, <<0, 1>>, <<30, 1>>>>,
             hi |-> <<<<70, 1>>, <<1, 20>>, <<150, 1>>>>,
             fault_rate |-> <<9, 1000>>,
             anomaly_types |-> <<"drift", "overload", "intermittent_loss", "silence">>,
             cpu_cycle |-> "none", rtt_cycle |-> "none"]) @@
    (L3N :> [stride |-> 20, base |-> <<<<60, 1>>, <<3, 1000>>, <<90, 1>>>>,
             trend |-> <<<<1, 5>>, <<3, 10000>>, <<1, 2>>>>,
             sd |-> <<<<10, 1>>, <<4, 1>>, <<1, 2500>>, <<18, 1>>, <<6, 1>>>>,
             beta |-> <<2, 25>>,
             lo |-> <<<<15, 1>>, <<0, 1>>, <<30, 1>>>>,
             hi |-> <<<<70, 1>>, <<7, 100>>, <<180, 1>>>>,
             fault_rate |-> <<19, 1000>>,
             anomaly_types |-> <<"latency_spike", "throughput_drop", "drift", "offline">>,
             cpu_cycle |-> "l3_cpu", rtt_cycle |-> "l3_rtt"]) @@
    (L4N :> [stride |-> 30, base |-> <<<<50, 1>>, <<1, 200>>, <<120, 1>>>>,
             trend |-> <<<<3, 10>>, <<1, 2000>>, <<4, 5>>>>,
             sd |-> <<<<12, 1>>, <<5, 1>>, <<1, 1250>>, <<30, 1>>, <<10, 1>>>>,
             beta |-> <<3, 20>>,
             lo |-> <<<<20, 1>>, <<0, 1>>, <<40, 1>>>>,
             hi |-> <<<<80, 1>>, <<1, 10>>, <<220, 1>>>>,
             fault_rate |-> <<29, 1000>>,
             anomaly_types |-> <<"spike", "drift", "silence", "overload">>,
             cpu_cycle |-> "l4_cpu", rtt_cycle |-> "l4_rtt"])

\* f"{i:02d}", for i below 100
TwoDigits(i) ==
    <<Digits10[((i \div 10) % 10) + 1], Digits10[(i % 10) + 1]>>

\* rng.uniform(-w, w) * t for the unit draw v: the trend term of iteration t
TrendTerm(w, v, t) == Mul(Uniform(<<0 - w[1], w[2]>>, w, v), R(t))

\* the values before clipping: base + trend * t + cycle + noise + random walk
BaseValues(cfg, trend, d, t) ==
    [cpu |-> Add(Add(Add(cfg.base[1], TrendTerm(cfg.trend[1], trend[1], t)),
                     Cycles[cfg.cpu_cycle][t + 1]),
                 Add(Mul(cfg.sd[1], d.z[1]), Mul(cfg.sd[2], d.z[2]))),
     plr |-> Add(Add(cfg.base[2], TrendTerm(cfg.trend[2], trend[2], t)),
                 Add(Mul(cfg.beta, d.b), Mul(cfg.sd[3], d.z[3]))),
     rtt |-> Add(Add(Add(cfg.base[3], TrendTerm(cfg.trend[3], trend[3], t)),
                     Cycles[cfg.rtt_cycle][t + 1]),
                 Add(Mul(cfg.sd[4], d.z[4]), Mul(cfg.sd[5], d.z[5])))]

\* np.clip to the tier's ranges
\* the values left as generated
Clipped_unclipped(cfg, m) == m

Clipped(cfg, m) ==
    [cpu |-> Clip(m.cpu, cfg.lo[1], cfg.hi[1]),
     plr |-> Clip(m.plr, cfg.lo[2], cfg.hi[2]),
     rtt |-> Clip(m.rtt, cfg.lo[3], cfg.hi[3])]

\* the values of a node that is down
Down == [cpu |-> R(0), plr |-> R(1), rtt |-> R(999)]

\* the anomaly overrides of generate_l1_node_samples
AnomalyL1(anomaly, m) ==
    CASE anomaly = "overload" -> [cpu |-> R(100), plr |-> <<1, 5>>, rtt |-> R(400)]
      [] anomaly = "routing_loop" -> [cpu |-> m.cpu, plr |-> <<1, 2>>, rtt |-> R(999)]
      [] anomaly \in {"fibre_cut", "silence"} -> Down
      [] OTHER -> m

\* the anomaly overrides of generate_l2_node_samples
AnomalyL2(anomaly, m, t, d) ==
    CASE anomaly = "drift" ->
           [cpu |-> Min(AddMul(m.cpu, R(t), <<1, 4>>), R(100)),
            plr |-> Min(AddMul(m.plr, R(t), <<1, 1000>>), R(1)), rtt |-> m.rtt]
      [] anomaly = "overload" -> [cpu |-> R(100), plr |-> <<3, 20>>, rtt |-> R(300)]
      [] anomaly = "intermittent_loss" ->
           IF d.flag THEN [cpu |-> m.cpu, plr |-> <<4, 5>>, rtt |-> R(500)] ELSE m
      [] anomaly = "silence" -> Down
      [] OTHER -> m

\* the anomaly overrides of generate_l3_node_samples
AnomalyL3(anomaly, m, t, d) ==
    CASE anomaly = "latency_spike" ->
           [cpu |-> m.cpu, plr |-> m.plr,
            rtt |-> Min(Add(m.rtt, Uniform(R(100), R(150), d.v[1])), R(300))]
      [] anomaly = "throughput_drop" ->
           [cpu |-> Max(Sub(m.cpu, Uniform(R(10), R(25), d.v[1])), R(0)),
            plr |-> Min(Add(m.plr, Uniform(<<1, 25>>, <<3, 20>>, d.v[2])), R(1)),
            rtt |-> m.rtt]
      [] anomaly = "drift" ->
           [cpu |-> Min(AddMul(m.cpu, R(t), <<3, 10>>), R(100)),
            plr |-> Min(AddMul(m.plr, R(t), <<1, 1000>>), R(1)), rtt |-> m.rtt]
      [] anomaly = "offline" -> Down
      [] OTHER -> m

\* the anomaly overrides of generate_l4_node_samples
AnomalyL4(anomaly, m, t, d) ==
    CASE anomaly = "spike" ->
           [cpu |-> Min(Add(m.cpu, Uniform(R(30), R(50), d.v[1])), R(100)),
            plr |-> m.plr,
            rtt |-> Min(Add(m.rtt, Uniform(R(80), R(140), d.v[2])), R(300))]
      [] anomaly = "drift" ->
           [cpu |-> Min(AddMul(m.cpu, R(t), <<3, 10>>), R(100)),
            plr |-> Min(AddMul(m.plr, R(t), <<1, 1000>>), R(1)), rtt |-> m.rtt]
      [] anomaly = "silence" -> Down
      [] anomaly = "overload" -> [cpu |-> R(100), plr |-> <<1, 5>>, rtt |-> R(400)]
      [] OTHER -> m

\* the if-chain of the tier's generator for an injected anomaly
Overridden(prefix, anomaly, m, t, d) ==
    CASE prefix = L1N -> AnomalyL1(anomaly, m)
      [] prefix = L2N -> AnomalyL2(anomaly, m, t, d)
      [] prefix = L3N -> AnomalyL3(anomaly, m, t, d)
      [] OTHER -> AnomalyL4(anomaly, m, t, d)

\* the anomaly of a row and its values: injected when the random() draw is
\* below fault_rate, the tag being rng.choice(anomaly_types)
Injected(prefix, types, m, t, d, fault_rate) ==
    IF Less(d.u, fault_rate)
    THEN [anomaly |-> types[((d.choice - 1) % Len(types)) + 1],
          values |-> Overridden(prefix, types[((d.choice - 1) % Len(types)) + 1],
                                m, t, d)]
    ELSE [anomaly |-> "none", values |-> m]

\* the dict a generator appends for node i in iteration t
RowOf(prefix, i, t, base, a) ==
    [timestamp |-> IsoFormat(PlusSteps(base, t)),
     node_id |-> prefix \o <<"_">> \o TwoDigits(i),
     cpu |-> RoundTo(a.values.cpu, 100),
     plr |-> RoundTo(a.values.plr, 10000),
     rtt |-> RoundTo(a.values.rtt, 100),
     anomaly |-> a.anomaly]

\* one pass of the inner loop, rng being RandomState(seed)
Row(prefix, cfg, i, t, base, fault_rate, types, seed) ==
    Only({RowOf(prefix, i, t, base, a) :
             a \in {Injected(prefix, types, m, t, Draws(seed, t), fault_rate) :
                       m \in {Clipped(cfg, v) :
                                 v \in {BaseValues(cfg, Trends(seed),
                                                   Draws(seed, t), t)}}}})

\* anomaly_types or the tier's default list: the default is taken for None
\* and for an empty list alike, and <<>> stands for both
TypesOr(anomaly_types, default) ==
    IF anomaly_types = <<>> THEN default ELSE anomaly_types

\* the rows of a generator, node by node and iteration by iteration
Rows(prefix, cfg, num_nodes, base, fault_rate, types, seed, iterations) ==
    [k \in 1..(num_nodes * iterations) |->
        Row(prefix, cfg, ((k - 1) \div iterations) + 1, (k - 1) % iterations,
            base, fault_rate, types,
            seed + (((k - 1) \div iterations) + 1) * cfg.stride)]

\* generate_l{k}_node_samples(num_nodes, base_time, fault_rate, anomaly_types,
\* seed, iterations) for the tier of prefix; now is what the clock shows.
\* RandomState raises for the first node when its seed is negative.
GenerateSamples(prefix, num_nodes, base_time, fault_rate, anomaly_types, seed, iterations, now) ==
    IF num_nodes >= 1 /\ ~SeedOK(seed + generator_config[prefix].stride)
    THEN [raised |-> TRUE, error |-> "ValueError"]
    ELSE [raised |-> FALSE,
          rows |-> Rows(prefix, generator_config[prefix], num_nodes,
                        BaseTimeOr(base_time, now), fault_rate,
                        TypesOr(anomaly_types, generator_config[prefix].anomaly_types),
                        seed, iterations)]

-----------------------------------------------------------------------------
(* core/node_dispatcher.py: get_node_sample *)

\* the text after the first c of s
AfterFirst(s, c) == SubSeq(s, Len(SplitFirst(s, c)) + 2, Len(s))

\* the value of a string of decimal digits
RECURSIVE DigitsValue(_)
DigitsValue(s) ==
    IF s = <<>> THEN 0
    ELSE 10 * DigitsValue(SubSeq(s, 1, Len(s) - 1)) +
         ((CHOOSE k \in 1..10 : Digits10[k] = s[Len(s)]) - 1)

\* int(piece) succeeds on a non-empty string of digits
IsNumber(piece) ==
    Len(piece) > 0 /\ \A k \in 1..Len(piece) : \E j \in 1..10 : Digits10[j] = piece[k]

\* try: index = int(node_id.split("_")[1]) except: index = 0
ParseIndex(node_id) ==
    IF Contains(node_id, "_") /\ IsNumber(SplitFirst(AfterFirst(node_id, "_"), "_"))
    THEN DigitsValue(SplitFirst(AfterFirst(node_id, "_"), "_"))
    ELSE 0

\* dynamic_seed = index * 13 + time_step
DynamicSeed(node_id, step) == ParseIndex(node_id) * 13 + step

\* the columns of create_node_list's DataFrame that the model keeps: the
\* descriptive columns (location, node_type, management_zone, crop_focus,
\* sensor_type, power_source) are merged in the same way as these
NodeListRows ==
    [n \in DOMAIN NodeListCriticality |->
        [node_id |-> n,
         tier |-> IF n = CloudDB_Server THEN <<"L", "0">> ELSE SubSeq(n, 1, 2),
         criticality |-> NodeListCriticality[n]]]

\* pd.DataFrame(): no rows
EmptyDataFrame == [n \in {} |-> None]

\* the fixed default sample get_node_sample falls back to
DefaultRecord(node_id, base_time) ==
    [timestamp |-> IsoFormat(base_time), node_id |-> node_id,
     cpu |-> DefaultSample.cpu, plr |-> DefaultSample.plr,
     rtt |-> DefaultSample.rtt, anomaly |-> DefaultSample.anomaly]

\* for col in node_meta.index: if col not in sample: sample[col] = node_meta[col]
Merged(sample, node_meta) ==
    IF node_meta = None THEN sample
    ELSE [col \in DOMAIN sample \cup DOMAIN node_meta |->
             IF col \in DOMAIN sample THEN sample[col] ELSE node_meta[col]]

\* the try block of get_node_sample: the tier's generator for one node and
\* one iteration, df being what it returned or raised
Dispatched(node_id, base_time, node_meta, df) ==
    IF df.raised \/ Len(df.rows) = 0
    THEN [raised |-> FALSE, value |-> DefaultRecord(node_id, base_time)]
    ELSE [raised |-> FALSE, value |-> Merged(df.rows[1], node_meta)]

\* get_node_sample(node_id, base_time, time_step, node_list), node_list being
\* the list given, read from data/node_list.csv or built by create_node_list.
\* The lookup of the node's row is outside the try block: .iloc[0] raises
\* IndexError when the list has no row for node_id.
NodeSample(node_id, base_time, step, node_list) ==
    IF DOMAIN node_list # {} /\ node_id \notin DOMAIN node_list
    THEN [raised |-> TRUE, error |-> "IndexError"]
    ELSE IF Prefix3(node_id) \in DOMAIN generator_config
    THEN Dispatched(node_id, base_time,
                    IF DOMAIN node_list = {} THEN None ELSE node_list[node_id],
                    GenerateSamples(Prefix3(node_id), 1, base_time,
                                    generator_config[Prefix3(node_id)].fault_rate,
                                    <<>>, DynamicSeed(node_id, step), 1, base_time))
    ELSE [raised |-> FALSE, value |-> DefaultRecord(node_id, base_time)]

\* the node ids get_node_sample is asked about: nodes of the node list, and
\* ids the list does not have
SampleNodeIds ==
    {L1N_01, L2N_01, L3N_01, L4N_01, CloudDB_Server, UNKNOWN, L1_01,
     <<"L", "4", "N", "_", "9", "9">>, <<"L", "4", "N", "_", "x">>, <<"X", "Y", "Z">>}

\* the node lists get_node_sample works with: the one of create_node_list
\* (also what data/node_list.csv holds), and an empty one a caller passes
NodeLists == {NodeListRows, EmptyDataFrame}

\* the time steps get_node_sample is called with
TimeSteps == {-50, 0, 1, 2, 13}

\* the datetimes passed as base_time
BaseTimes == {Time(0), Time(1000)}

\* what the clock can show when a generator reads it
Clock == {Time(5), Time(6)}

\* a client calls get_node_sample(node_id, base_time, time_step, node_list);
\* the function keeps nothing between calls, so a run is one call
get_node_sample ==
    \E node_id \in SampleNodeIds, base_time \in BaseTimes, step \in TimeSteps,
       node_list \in NodeLists :
        /\ ret.op = "init"
        /\ ret' = [op |-> "get_node_sample", node_id |-> node_id,
                   base_time |-> base_time, time_step |-> step,
                   node_list |-> node_list,
                   result |-> NodeSample(node_id, base_time, step, node_list)]
        /\ UNCHANGED calcVars
        /\ UNCHANGED dashVars
        /\ UNCHANGED fogVars
        /\ UNCHANGED datasetVars

\* a client calls the generator of a tier; fault_rate and anomaly_types are
\* the tier's defaults or given
generate_node_samples ==
    \E prefix \in DOMAIN generator_config, num_nodes \in 1..2,
       base_time \in {None, Time(0)}, faulty \in BOOLEAN,
       anomaly_types \in {<<>>, <<"overload">>}, seed \in 0..MaxSeed,
       iterations \in 1..MaxIterations, now \in Clock :
        /\ ret.op = "init"
        /\ ret' = [op |-> "generate_node_samples", prefix |-> prefix,
                   num_nodes |-> num_nodes, base_time |-> base_time,
                   fault_rate |-> IF faulty THEN R(1)
                                  ELSE generator_config[prefix].fault_rate,
                   anomaly_types |-> anomaly_types, seed |-> seed,
                   iterations |-> iterations, now |-> now,
                   result |-> GenerateSamples(prefix, num_nodes, base_time,
                                 IF faulty THEN R(1)
                                 ELSE generator_config[prefix].fault_rate,
                                 anomaly_types, seed, iterations, now)]
        /\ UNCHANGED calcVars
        /\ UNCHANGED dashVars
        /\ UNCHANGED fogVars
        /\ UNCHANGED datasetVars

NextSample ==
    \/ get_node_sample
    \/ generate_node_samples

\* the generators and the dispatcher, called by their clients
SpecSample == InitDefault /\ [][NextSample]_vars

-----------------------------------------------------------------------------
(* utils/node_utils.py: fogNodeCharacterisation.  math.sqrt is the one        *)
(* operation that leaves the rationals: Sqrt gives the root cut off after     *)
(* four significant digits or more, and the exact root of the square of a     *)
(* decimal number.  A z-score, the quotient by such a root, is kept to four   *)
(* decimals, which is coarser than the program's floats and leaves a zero     *)
(* z-score zero.                                                              *)

\* abs(x)
AbsQ(x) == IF x[1] < 0 THEN <<0 - x[1], x[2]>> ELSE x

\* the integer square root of m >= 1 by Newton's iteration from x
RECURSIVE IsqrtFrom(_, _)
IsqrtStep(m, x, y) == IF y >= x THEN x ELSE IsqrtFrom(m, y)

IsqrtFrom(m, x) == IsqrtStep(m, x, (x + m \div x) \div 2)

Isqrt(m) == IF m <= 0 THEN 0 ELSE IsqrtFrom(m, m)

\* the digits of q + r/d shifted two places at a time until q has seven of
\* them, k being the power of ten the root is then divided by
RECURSIVE SqrtShift(_, _, _, _)
RECURSIVE SqrtShiftOdd(_, _, _, _)
SqrtShift(q, r, d, k) ==
    IF q >= 1000000 THEN Q(Isqrt(q), k)
    ELSE SqrtShiftOdd(10 * q + (10 * r) \div d, (10 * r) % d, d, k)

SqrtShiftOdd(q, r, d, k) ==
    SqrtShift(10 * q + (10 * r) \div d, (10 * r) % d, d, 10 * k)

\* math.sqrt(x) for x >= 0
Sqrt(x) ==
    IF x[1] = 0 THEN Zero ELSE SqrtShift(x[1] \div x[2], x[1] % x[2], x[2], 1)

MIN_SIGMA == [PLR |-> <<1, 1000>>, TTL |-> <<1, 10>>, CPU |-> <<1, 10>>]

INITIAL_SIGMA == [PLR |-> <<1, 200>>, TTL |-> R(10), CPU |-> R(5)]

warmup_samples == 5

\* the weights and the smoothing factor the dashboard constructs its
\* fogNodeCharacterisation with
WEIGHTS == [PLR |-> <<2, 5>>, TTL |-> <<2, 5>>, CPU |-> <<3, 10>>]

ALPHA == <<1, 5>>

\* the metrics in the order muAndsigma_per_node goes through them
Metrics == {"PLR", "TTL", "CPU"}

\* _initialise_node_stats: the statistics of a node not seen before
InitialStats ==
    [m \in Metrics |-> [n |-> 0, mu |-> Zero, sum_sq |-> Zero,
                        sigma |-> INITIAL_SIGMA[m]]]

\* a faulty variant of Sigma: the deviation is not floored
Sigma_unfloored(metric, n, sum_sq) ==
    IF n > 1 THEN Sqrt(AbsQ(Div(sum_sq, R(n - 1)))) ELSE INITIAL_SIGMA[metric]

\* sigma after the n-th value: the sample deviation floored for n > 1, the
\* initial constant otherwise
Sigma(metric, n, sum_sq) ==
    IF n > 1
    THEN Max(Sqrt(AbsQ(Div(sum_sq, R(n - 1)))), MIN_SIGMA[metric])
    ELSE INITIAL_SIGMA[metric]

\* stats["sigma"] = ...
WithSigma(metric, n, mu, sum_sq) ==
    [n |-> n, mu |-> mu, sum_sq |-> sum_sq, sigma |-> Sigma(metric, n, sum_sq)]

\* a faulty variant of WelfordSum: both deviations are taken from the old mean
WelfordSum_old_mean(metric, stats, value, n, mu) ==
    WithSigma(metric, n, mu,
              Add(stats.sum_sq,
                  Mul(Sub(value, stats.mu), Sub(value, stats.mu))))

\* delta2 = value - stats["mu"]; stats["sum_sq"] += delta * delta2
WelfordSum(metric, stats, value, n, mu) ==
    WithSigma(metric, n, mu,
              Add(stats.sum_sq, Mul(Sub(value, stats.mu), Sub(value, mu))))

\* a faulty variant of Welford: the mean moves by delta / (n + 1)
Welford_late(metric, stats, value) ==
    WelfordSum(metric, stats, value, stats.n + 1,
               Add(stats.mu, Div(Sub(value, stats.mu), R(stats.n + 2))))

\* stats["n"] += 1; delta = value - stats["mu"]; stats["mu"] += delta / n
Welford(metric, stats, value) ==
    WelfordSum(metric, stats, value, stats.n + 1,
               Add(stats.mu, Div(Sub(value, stats.mu), R(stats.n + 1))))

\* the loop of muAndsigma_per_node over the three metrics of one node
WelfordAll(stats, new_plr, new_ttl, new_cpu) ==
    [m \in DOMAIN stats |->
        IF m = "PLR" THEN Welford("PLR", stats.PLR, new_plr)
        ELSE IF m = "TTL" THEN Welford("TTL", stats.TTL, new_ttl)
        ELSE IF m = "CPU" THEN Welford("CPU", stats.CPU, new_cpu)
        ELSE stats[m]]

\* updated_metrics: mu, sigma and sum_sq of each metric
UpdatedMetrics(stats) ==
    [m \in Metrics |-> [mu |-> stats[m].mu, sigma |-> stats[m].sigma,
                        sum_sq |-> stats[m].sum_sq]]

\* a faulty variant of MuAndSigmaStored: the sample count follows the n of
\* the statistics
MuAndSigmaStored_n(stats_of, counts, node_id, updated) ==
    [node_stats |-> Put(stats_of, node_id, updated),
     node_sample_counts |-> Put(counts, node_id, updated.PLR.n),
     result |-> UpdatedMetrics(updated)]

\* muAndsigma_per_node, from the node's updated statistics on
MuAndSigmaStored(stats_of, counts, node_id, updated) ==
    [node_stats |-> Put(stats_of, node_id, updated),
     node_sample_counts |-> Put(counts, node_id, Get(counts, node_id, 0) + 1),
     result |-> UpdatedMetrics(updated)]

\* muAndsigma_per_node(node_id, new_plr, new_ttl, new_cpu) on the instance's
\* node_stats and node_sample_counts: the two afterwards and what it returns.
\* A node unknown to node_stats is initialised, which also resets its count.
MuAndSigma(stats_of, counts, node_id, new_plr, new_ttl, new_cpu) ==
    IF node_id \in DOMAIN stats_of
    THEN MuAndSigmaStored(stats_of, counts, node_id,
                          WelfordAll(stats_of[node_id], new_plr, new_ttl, new_cpu))
    ELSE MuAndSigmaStored(stats_of, Put(counts, node_id, 0), node_id,
                          WelfordAll(InitialStats, new_plr, new_ttl, new_cpu))

\* the attributes __init__ gives a fogNodeCharacterisation: there is no
\* ema_health among them
Fog(stats_of, counts) ==
    [G |-> <<>>, WEIGHTS |-> WEIGHTS, ALPHA |-> ALPHA,
     node_stats |-> stats_of, current_thresholds |-> <<>>, M2 |-> Zero,
     MIN_SIGMA |-> MIN_SIGMA, INITIAL_SIGMA |-> INITIAL_SIGMA,
     warmup_samples |-> warmup_samples, node_sample_counts |-> counts]

\* (x - mean) / std if std != 0 else 0.0, std floored before; the quotient
\* is kept to four decimals
ZScore(x, mean, std) ==
    IF std # Zero THEN RoundTo(Div(Sub(x, mean), std), 10000) ELSE Zero

\* h: the weighted sum of the z-scores
WeightedZ(weights, z_plr, z_ttl, z_cpu) ==
    Add(Add(Mul(weights.PLR, z_plr), Mul(weights.TTL, z_ttl)),
        Mul(weights.CPU, z_cpu))

\* h of healthMetric from its arguments
HealthOf(self, plr, ttl, cpu, plr_mean, plr_std, ttl_mean, ttl_std, cpu_mean, cpu_std) ==
    WeightedZ(self.WEIGHTS,
              ZScore(plr, plr_mean, Max(plr_std, self.MIN_SIGMA.PLR)),
              ZScore(ttl, ttl_mean, Max(ttl_std, self.MIN_SIGMA.TTL)),
              ZScore(cpu, cpu_mean, Max(cpu_std, self.MIN_SIGMA.CPU)))

\* the smoothing branch of healthMetric: it reads self.ema_health, and an
\* attribute the instance does not have raises AttributeError
Smoothed(self, node_id, h) ==
    IF "ema_health" \notin DOMAIN self
    THEN [raised |-> TRUE, error |-> "AttributeError"]
    ELSE IF node_id \notin DOMAIN self.ema_health
    THEN [raised |-> FALSE, value |-> h,
          ema_health |-> Put(self.ema_health, node_id, h)]
    ELSE [raised |-> FALSE,
          value |-> EmaStep(self.ALPHA, h, self.ema_health[node_id]),
          ema_health |-> Put(self.ema_health, node_id,
                             EmaStep(self.ALPHA, h, self.ema_health[node_id]))]

\* healthMetric, from h on
HealthSmoothed(self, node_id, h) ==
    IF Get(self.node_sample_counts, node_id, 0) > self.warmup_samples
    THEN Smoothed(self, node_id, h)
    ELSE [raised |-> FALSE, value |-> h]

\* healthMetric(node_id, plr, ttl, cpu, plr_mean, plr_std, ttl_mean, ttl_std,
\* cpu_mean, cpu_std) on the instance self
HealthMetric(self, node_id, plr, ttl, cpu, plr_mean, plr_std, ttl_mean, ttl_std, cpu_mean, cpu_std) ==
    HealthSmoothed(self, node_id,
                   HealthOf(self, plr, ttl, cpu, plr_mean, plr_std, ttl_mean,
                            ttl_std, cpu_mean, cpu_std))

\* the nodes one instance is fed with
StatNodeIds == {L1N_01, L4N_01}

\* the measurements it is fed with: ttl differs by less than MIN_SIGMA["TTL"]
StatSamples ==
    {[plr |-> <<1, 100>>, ttl |-> R(100), cpu |-> R(50)],
     [plr |-> <<1, 50>>, ttl |-> <<2001, 20>>, cpu |-> R(53)]}

\* the instance after muAndsigma_per_node and what the call returned
FogUpdated(node_id, x, out) ==
    /\ node_stats' = out.node_stats
    /\ node_sample_counts' = out.node_sample_counts
    /\ fed' = Append(fed, [node_id |-> node_id, PLR |-> x.plr, TTL |-> x.ttl,
                           CPU |-> x.cpu])
    /\ ret' = [op |-> "muAndsigma_per_node", node_id |-> node_id,
               plr |-> x.plr, ttl |-> x.ttl, cpu |-> x.cpu,
               result |-> out.result]

\* a client calls muAndsigma_per_node(node_id, plr, ttl, cpu)
muAndsigma_per_node ==
    \E node_id \in StatNodeIds, x \in StatSamples :
        /\ Len(fed) < MaxSamples
        /\ FogUpdated(node_id, x,
                      MuAndSigma(node_stats, node_sample_counts, node_id,
                                 x.plr, x.ttl, x.cpu))
        /\ UNCHANGED calcVars
        /\ UNCHANGED dashVars
        /\ UNCHANGED datasetVars

\* a client calls healthMetric for a node with the node's running statistics,
\* as the dashboards do; the call changes nothing the instance has
healthMetric ==
    \E node_id \in DOMAIN node_stats, x \in StatSamples :
        /\ ret' = [op |-> "healthMetric", node_id |-> node_id,
                   plr |-> x.plr, ttl |-> x.ttl, cpu |-> x.cpu,
                   result |-> HealthMetric(Fog(node_stats, node_sample_counts),
                                  node_id, x.plr, x.ttl, x.cpu,
                                  node_stats[node_id].PLR.mu,
                                  node_stats[node_id].PLR.sigma,
                                  node_stats[node_id].TTL.mu,
                                  node_stats[node_id].TTL.sigma,
                                  node_stats[node_id].CPU.mu,
                                  node_stats[node_id].CPU.sigma)]
        /\ UNCHANGED calcVars
        /\ UNCHANGED dashVars
        /\ UNCHANGED fogVars
        /\ UNCHANGED datasetVars

NextStats ==
    \/ muAndsigma_per_node
    \/ healthMetric

\* one fogNodeCharacterisation instance, constructed without a snapshot file
SpecStats == InitDefault /\ [][NextStats]_vars

-----------------------------------------------------------------------------
(* core/node_dispatcher.py: generate_layer_aware_degradation.  Its random    *)
(* state is seeded with hash(f"{node_id}_{cycle}"), which Python salts per    *)
(* process: the values drawn are inputs of the model.  rng.normal(loc, scale) *)
(* can return any real whatever loc is, so the model draws the value          *)
(* returned; time_factor and state_factor, which only enter loc and the       *)
(* degrade_factor field that nothing reads, are left out with that field.     *)

\* layer=None
NoLayer == <<>>

\* the layer of the backbone node L1N_01
Half == <<1, 2>>

\* the node id the special case of the cloud database tests for
CloudDBServer == <<"C", "l", "o", "u", "d", "D", "B", "S", "e", "r", "v", "e", "r">>

\* the anomaly tags
Normal == <<"n", "o", "r", "m", "a", "l">>

BackboneWarning ==
    <<"L", "1", "_", "b", "a", "c", "k", "b", "o", "n", "e", "_",
      "w", "a", "r", "n", "i", "n", "g">>

Critical == <<"c", "r", "i", "t", "i", "c", "a", "l">>

Severe == <<"s", "e", "v", "e", "r", "e">>

Moderate == <<"m", "o", "d", "e", "r", "a", "t", "e">>

Mild == <<"m", "i", "l", "d">>

Recovery == <<"r", "e", "c", "o", "v", "e", "r", "y">>

\* a faulty variant of LayerTag: the tag does not name the layer
LayerTag_unlayered(layer, grade) == grade

\* f"L{layer}_{grade}" for an integer layer
LayerTag(layer, grade) ==
    <<"L", Digits10[layer[1] + 1], "_">> \o grade

\* str.startswith(prefix)
HasPrefix(str, prefix) ==
    Len(str) >= Len(prefix) /\ SubSeq(str, 1, Len(prefix)) = prefix

layer_config ==
    (Half :> [degrade_rate |-> <<1, 10000>>, variance |-> <<1, 10>>,
              recovery_chance |-> <<1, 2>>, stress_interval |-> <<1000, 2000>>,
              max_cpu |-> R(15), max_plr |-> <<1, 1000>>, max_rtt |-> R(30),
              baseline |-> [cpu |-> R(8), plr |-> <<1, 10000>>, rtt |-> R(5)]]) @@
    (R(1) :> [degrade_rate |-> <<3, 1000>>, variance |-> <<1, 2>>,
              recovery_chance |-> <<1, 5>>, stress_interval |-> <<40, 60>>,
              max_cpu |-> R(25), max_plr |-> <<1, 100>>, max_rtt |-> R(70)]) @@
    (R(2) :> [degrade_rate |-> <<3, 500>>, variance |-> <<7, 10>>,
              recovery_chance |-> <<3, 20>>, stress_interval |-> <<30, 50>>,
              max_cpu |-> R(40), max_plr |-> <<3, 100>>, max_rtt |-> R(120)]) @@
    (R(3) :> [degrade_rate |-> <<1, 100>>, variance |-> <<9, 10>>,
              recovery_chance |-> <<1, 10>>, stress_interval |-> <<20, 40>>,
              max_cpu |-> R(60), max_plr |-> <<3, 50>>, max_rtt |-> R(180)]) @@
    (R(4) :> [degrade_rate |-> <<3, 200>>, variance |-> <<6, 5>>,
              recovery_chance |-> <<1, 20>>, stress_interval |-> <<10, 30>>,
              max_cpu |-> R(80), max_plr |-> <<1, 10>>, max_rtt |-> R(250)])

\* what the random state can give in one call: the three rng.normal values,
\* rng.random(), the place of the recovery factor in its range, the place of
\* rng.randint in its range, and the place of the stress severity in its
\* range
DegradeDraws ==
    {[normal |-> <<<<1, 50>>, <<3, 100>>, <<1, 50>>>>, random |-> <<9, 10>>,
      recovery |-> Zero, randint |-> 0, stress |-> Zero],
     [normal |-> <<<<-1, 100>>, <<-1, 100>>, <<-1, 100>>>>, random |-> <<1, 100>>,
      recovery |-> Zero, randint |-> 3, stress |-> <<1, 2>>],
     [normal |-> <<<<1, 20>>, <<1, 10>>, <<1, 20>>>>, random |-> <<1, 2>>,
      recovery |-> Zero, randint |-> 7, stress |-> Zero]}

\* the layer of a node: the one given, or the one its id stands for
LayerOf(node_id, layer) ==
    IF layer # NoLayer THEN layer
    ELSE IF node_id = L1N_01 THEN Half
    ELSE IF HasPrefix(node_id, L1) THEN R(1)
    ELSE IF HasPrefix(node_id, L2) THEN R(2)
    ELSE IF HasPrefix(node_id, L3) THEN R(3)
    ELSE R(4)

\* the dict returned for the cloud database: no degradation
CloudRecord(cycle, node_id) ==
    [cycle |-> cycle, node_id |-> node_id, layer |-> R(0), cpu |-> R(5),
     plr |-> Zero, rtt |-> R(2), anomaly |-> Normal, severity |-> Zero,
     degrade_factor |-> Zero]

\* a faulty variant of TowardsBaseline: the backbone node degrades by a tenth
TowardsBaseline_degrading(cfg, cpu, plr, rtt) ==
    [cpu |-> Mul(cpu, <<11, 10>>), plr |-> Mul(plr, <<11, 10>>),
     rtt |-> Mul(rtt, <<11, 10>>), recovery_applied |-> FALSE]

\* the backbone node: regression towards its baseline
TowardsBaseline(cfg, cpu, plr, rtt) ==
    [cpu |-> Add(Mul(cpu, <<9, 10>>), Mul(cfg.baseline.cpu, <<1, 10>>)),
     plr |-> Add(Mul(plr, <<4, 5>>), Mul(cfg.baseline.plr, <<1, 5>>)),
     rtt |-> Add(Mul(rtt, <<17, 20>>), Mul(cfg.baseline.rtt, <<3, 20>>)),
     recovery_applied |-> FALSE]

\* x * (1 + max(0.001, rng.normal(...)))
Degrade(x, normal) == Mul(x, Add(One, Max(<<1, 1000>>, normal)))

\* the three metrics degraded
Degraded(cpu, plr, rtt, d) ==
    [cpu |-> Degrade(cpu, d.normal[1]), plr |-> Degrade(plr, d.normal[2]),
     rtt |-> Degrade(rtt, d.normal[3])]

\* the temporary improvement: recovery_factor is drawn only when it applies
RecoveredBy(cpu, plr, rtt, m, recovery_factor) ==
    [cpu |-> Max(Mul(cpu, <<9, 10>>), Mul(m.cpu, recovery_factor)),
     plr |-> Max(Mul(plr, <<9, 10>>), Mul(m.plr, recovery_factor)),
     rtt |-> Max(Mul(rtt, <<9, 10>>), Mul(m.rtt, recovery_factor)),
     recovery_applied |-> TRUE]

Recovered(layer, cfg, cpu, plr, rtt, m, d) ==
    IF Less(d.random, cfg.recovery_chance)
    THEN RecoveredBy(cpu, plr, rtt, m,
                     Uniform(<<17, 20>>,
                             Sub(<<49, 50>>, Mul(layer, <<3, 100>>)),
                             d.recovery))
    ELSE [cpu |-> m.cpu, plr |-> m.plr, rtt |-> m.rtt,
          recovery_applied |-> FALSE]

\* rng.randint(low, high): low .. high - 1
RandInt(interval, k) == interval[1] + (k % (interval[2] - interval[1]))

\* the periodic stress
StressedBy(m, stress_severity) ==
    [cpu |-> Min(R(100), Mul(m.cpu, stress_severity)),
     plr |-> Min(One, Mul(m.plr, stress_severity)),
     rtt |-> Mul(m.rtt, stress_severity),
     recovery_applied |-> m.recovery_applied]

Stressed(cycle, layer, cfg, m, d) ==
    IF cycle % RandInt(cfg.stress_interval, d.randint) = 0
    THEN StressedBy(m, Uniform(<<11, 10>>,
                               Add(<<13, 10>>, Mul(layer, <<1, 10>>)),
                               d.stress))
    ELSE m

\* a faulty variant of Bounded: the values are not capped
Bounded_uncapped(cfg, m) == m

\* the layer's bounds
Bounded(cfg, m) ==
    [cpu |-> Min(cfg.max_cpu, m.cpu), plr |-> Min(cfg.max_plr, m.plr),
     rtt |-> Min(cfg.max_rtt, m.rtt), recovery_applied |-> m.recovery_applied]

\* min(1, max(0, x))
Unit(x) == Min(One, Max(Zero, x))

\* the severity of the backbone node
BackboneSeverity(m) ==
    Max(Zero,
        Min(One,
            Add(Add(Mul(<<2, 5>>, Div(Sub(m.cpu, R(5)), R(10))),
                    Mul(<<3, 10>>, Div(Sub(m.plr, <<1, 20000>>), <<19, 20000>>))),
                Mul(<<3, 10>>, Div(Sub(m.rtt, R(2)), R(28))))))

\* a faulty variant of LayerSeverity: the backbone's scale for every layer
LayerSeverity_backbone(layer, m) == BackboneSeverity(m)

\* the severity of a node of the layers 1 to 4
LayerSeverity(layer, m) ==
    Add(Add(Mul(<<2, 5>>,
                Unit(Div(Sub(m.cpu, Sub(R(40), Mul(layer, R(5)))),
                         Add(R(60), Mul(layer, R(10)))))),
            Mul(<<3, 10>>,
                Unit(Div(Sub(m.plr, Sub(<<1, 100>>, Mul(layer, <<1, 500>>))),
                         Add(<<1, 10>>, Mul(layer, <<1, 50>>)))))),
        Mul(<<3, 10>>,
            Unit(Div(Sub(m.rtt, Sub(R(80), Mul(layer, R(10)))),
                     Add(R(150), Mul(layer, R(30)))))))

Severity(layer, m) ==
    IF layer = Half THEN BackboneSeverity(m) ELSE LayerSeverity(layer, m)

\* the anomaly classification
Classified(layer, severity, recovery_applied) ==
    IF layer = R(0) THEN Normal
    ELSE IF layer = Half
    THEN IF Less(<<3, 10>>, severity) THEN BackboneWarning ELSE Normal
    ELSE IF Less(<<4, 5>>, severity) THEN LayerTag(layer, Critical)
    ELSE IF Less(<<3, 5>>, severity) THEN LayerTag(layer, Severe)
    ELSE IF Less(<<2, 5>>, severity) THEN LayerTag(layer, Moderate)
    ELSE IF Less(<<1, 5>>, severity) THEN LayerTag(layer, Mild)
    ELSE IF recovery_applied THEN LayerTag(layer, Recovery)
    ELSE Normal

\* the dict returned for the other nodes
DegradedRecord(cycle, node_id, layer, m, severity) ==
    [cycle |-> cycle, node_id |-> node_id, layer |-> layer,
     cpu |-> RoundTo(Max(Zero, m.cpu), 100),
     plr |-> RoundTo(Max(Zero, m.plr), 10000),
     rtt |-> RoundTo(Max(One, m.rtt), 10),
     anomaly |-> Classified(layer, severity, m.recovery_applied),
     severity |-> RoundTo(severity, 1000)]

Classify(cycle, node_id, layer, m) ==
    DegradedRecord(cycle, node_id, layer, m, Severity(layer, m))

\* degraded_cpu, degraded_plr, degraded_rtt and recovery_applied of a node of
\* the layer before the classification, cfg being the layer's row
DegradedMetrics(cycle, cpu, plr, rtt, layer, cfg, d) ==
    IF layer = Half
    THEN Bounded(cfg, TowardsBaseline(cfg, cpu, plr, rtt))
    ELSE Only({Bounded(cfg, stressed) :
                  stressed \in
                      {Stressed(cycle, layer, cfg, recovered, d) :
                          recovered \in
                              {Recovered(layer, cfg, cpu, plr, rtt, degraded, d) :
                                  degraded \in {Degraded(cpu, plr, rtt, d)}}}})

\* the degradation of a node of the layer
DegradedIn(cycle, node_id, cpu, plr, rtt, layer, cfg, d) ==
    Only({Classify(cycle, node_id, layer, m) :
             m \in {DegradedMetrics(cycle, cpu, plr, rtt, layer, cfg, d)}})

\* generate_layer_aware_degradation(cycle, node_id, cpu, plr, rtt, layer), d
\* being what its random state gives
LayerAwareDegradation(cycle, node_id, cpu, plr, rtt, layer, d) ==
    IF node_id = CloudDBServer \/ layer = R(0)
    THEN CloudRecord(cycle, node_id)
    ELSE DegradedIn(cycle, node_id, cpu, plr, rtt, LayerOf(node_id, layer),
                    layer_config[LayerOf(node_id, layer)], d)

\* the node ids the degradation is called for: the backbone node, a node of
\* each layer, the cloud node of the topology and the id of the special case
DegradeNodeIds ==
    {L1N_01, <<"L", "1", "N", "_", "0", "2">>, L2N_01, L3N_01, L4N_01,
     CloudDB_Server, CloudDBServer}

\* the layer argument: absent, the cloud layer, and a layer given
DegradeLayers == {NoLayer, R(0), R(3)}

\* cycle 0 is a stress cycle for every interval, 30 for some draws
DegradeCycles == {0, 1, 30}

\* the metrics the degradation is called with: the default sample, values
\* far above every maximum, zeros, and values just above and below the
\* backbone's baseline
DegradeInputs ==
    {[cpu |-> R(50), plr |-> <<1, 100>>, rtt |-> R(100)],
     [cpu |-> R(100), plr |-> One, rtt |-> R(1000)],
     [cpu |-> Zero, plr |-> Zero, rtt |-> Zero],
     [cpu |-> <<801, 100>>, plr |-> <<1, 5000>>, rtt |-> <<11, 2>>],
     [cpu |-> R(5), plr |-> Zero, rtt |-> R(2)]}

\* the call and what it returned; fed counts the calls made with the
\* output of the call before
Degradation(cycle, node_id, cpu, plr, rtt, layer, d, count) ==
    [op |-> "generate_layer_aware_degradation", cycle |-> cycle,
     node_id |-> node_id, cpu |-> cpu, plr |-> plr, rtt |-> rtt,
     layer |-> layer, draws |-> d, fed |-> count,
     result |-> LayerAwareDegradation(cycle, node_id, cpu, plr, rtt, layer, d)]

\* a client calls generate_layer_aware_degradation
generate_layer_aware_degradation ==
    \E cycle \in DegradeCycles, node_id \in DegradeNodeIds,
       m \in DegradeInputs, layer \in DegradeLayers, d \in DegradeDraws :
        /\ ret.op = "init"
        /\ ret' = Degradation(cycle, node_id, m.cpu, m.plr, m.rtt, layer, d, 0)
        /\ UNCHANGED calcVars
        /\ UNCHANGED dashVars
        /\ UNCHANGED fogVars
        /\ UNCHANGED datasetVars

\* the client calls it again for the next cycle with the metrics it returned,
\* as the dashboard does with the snapshot of its last tick
degradation_fed_back ==
    \E d \in DegradeDraws :
        /\ ret.op = "generate_layer_aware_degradation"
        /\ ret.fed < MaxFeedback
        /\ ret' = Degradation(ret.cycle + 1, ret.node_id, ret.result.cpu,
                              ret.result.plr, ret.result.rtt, ret.layer, d,
                              ret.fed + 1)
        /\ UNCHANGED calcVars
        /\ UNCHANGED dashVars
        /\ UNCHANGED fogVars
        /\ UNCHANGED datasetVars

NextDegrade ==
    \/ generate_layer_aware_degradation
    \/ degradation_fed_back

\* the degradation called by a client, then fed with its own output
SpecDegrade == InitDefault /\ [][NextDegrade]_vars

-----------------------------------------------------------------------------
(* dashboard/ema_dashboard_dataset.py: EMALiveMultiNodeDashboard.  Its        *)
(* time_step, histories and titles are the variables of the same names; a     *)
(* panel's title is kept as the status in it.                                 *)

\* the nodes displayed
sample_node_ids == <<L1N_01, L4N_01>>

\* self.base_time, the clock's reading at construction
DashboardBaseTime == Time(0)

\* the scores of the degraded values
CpuScore(cpu) == Sub(One, Div(cpu, Hundred))

PlrScore(plr) == Sub(One, Min(Div(plr, <<1, 5>>), One))

RttScore(rtt) == Sub(One, Min(Div(rtt, R(400)), One))

\* a faulty variant of WeightedHealthScore: the weights of cpu and rtt swapped
WeightedHealthScore_swapped(cpu_score, plr_score, rtt_score) ==
    Add(Add(Mul(<<2, 5>>, cpu_score), Mul(<<3, 10>>, plr_score)),
        Mul(<<3, 10>>, rtt_score))

\* weighted_health_score = 0.3 * cpu_score + 0.3 * plr_score + 0.4 * rtt_score
WeightedHealthScore(cpu_score, plr_score, rtt_score) ==
    Add(Add(Mul(<<3, 10>>, cpu_score), Mul(<<3, 10>>, plr_score)),
        Mul(<<2, 5>>, rtt_score))

\* self.ema_health[node_id] after the update with the weighted score
HealthThreshold(beta, ema, node_id, weighted_health_score) ==
    IF node_id \notin DOMAIN ema THEN weighted_health_score
    ELSE EmaStep(beta, weighted_health_score, ema[node_id])

\* "GOOD" if health_difference > 0 or health_difference == 0 else "FAULTY"
HealthStatus(health_difference) ==
    IF Less(Zero, health_difference) \/ health_difference = Zero
    THEN "GOOD" ELSE "FAULTY"

\* a faulty variant of SampleFor: a fresh sample in every tick
SampleFor_fresh(file, node_id, base_time, step) ==
    NodeSample(node_id, base_time, step, NodeListRows).value

\* the sample of a node: its entry in the snapshot file when there is one,
\* what get_node_sample returns otherwise
SampleFor(file, node_id, base_time, step) ==
    IF file.exists /\ node_id \in DOMAIN file.node_metrics
    THEN file.node_metrics[node_id]
    ELSE NodeSample(node_id, base_time, step, NodeListRows).value

\* the node_stats a new fogNodeCharacterisation loads
LoadedStats(file) == IF file.exists THEN file.node_metrics ELSE <<>>

\* the entry of the snapshot for the node; n is the iteration counter
NodeMetric(node_id, step, now, counter, m, updated, health_metric, health_threshold, health_status) ==
    [cycle |-> step, timestamp |-> IsoFormat(now), node_id |-> node_id,
     plr |-> m.plr, cpu |-> m.cpu, rtt |-> m.rtt,
     PLR |-> [n |-> counter, mu |-> updated.PLR.mu,
              sigma |-> updated.PLR.sigma, sum_sq |-> updated.PLR.sum_sq],
     TTL |-> [n |-> counter, mu |-> updated.TTL.mu,
              sigma |-> updated.TTL.sigma, sum_sq |-> updated.TTL.sum_sq],
     CPU |-> [n |-> counter, mu |-> updated.CPU.mu,
              sigma |-> updated.CPU.sigma, sum_sq |-> updated.CPU.sum_sq],
     health_threshold |-> health_threshold, health_metric |-> health_metric,
     health_status |-> health_status]

\* the row appended to the dataset
DatasetRow(node_id, now, m, health_metric, health_threshold, health_difference, health_status, cpu_score, plr_score, rtt_score) ==
    [timestamp |-> IsoFormat(now), node_id |-> node_id, plr |-> m.plr,
     cpu |-> m.cpu, rtt |-> m.rtt, health_metric |-> health_metric,
     health_threshold |-> health_threshold,
     health_difference |-> health_difference,
     health_status |-> health_status, anomaly_type |-> m.anomaly,
     cpu_score |-> cpu_score, plr_score |-> plr_score,
     rtt_score |-> rtt_score]

\* a faulty variant of PushShown: every node gets a history
PushShown_every(hist_dict, node_id, value) == Push(hist_dict, node_id, value)

\* append to the history of a displayed node, and leave the others alone
PushShown(hist_dict, node_id, value) ==
    IF \E i \in 1..Len(sample_node_ids) : sample_node_ids[i] = node_id
    THEN Push(hist_dict, node_id, value)
    ELSE hist_dict

\* the loop body from the status on: D is what the loop has built so far
NodeStored(D, node_id, step, now, counter, m, stats, health_metric, health_threshold, health_difference, health_status, cpu_score, plr_score, rtt_score) ==
    [ema_health |-> Put(D.ema_health, node_id, health_threshold),
     dataset |-> Append(D.dataset,
                        DatasetRow(node_id, now, m, health_metric,
                                   health_threshold, health_difference,
                                   health_status, cpu_score, plr_score,
                                   rtt_score)),
     health |-> PushShown(D.health, node_id, health_metric),
     cpu |-> PushShown(D.cpu, node_id, cpu_score),
     plr |-> PushShown(D.plr, node_id, plr_score),
     rtt |-> PushShown(D.rtt, node_id, rtt_score),
     threshold |-> PushShown(D.threshold, node_id, health_threshold),
     node_metrics |-> Put(D.node_metrics, node_id,
                          NodeMetric(node_id, step, now, counter, m,
                                     UpdatedMetrics(stats), health_metric,
                                     health_threshold, health_status)),
     used |-> Put(D.used, node_id, stats),
     counts |-> D.counts,
     samples |-> D.samples]

\* health_difference = health_metric - health_threshold
NodeCompared(D, node_id, step, now, counter, m, stats, health_metric, health_threshold, health_difference, cpu_score, plr_score, rtt_score) ==
    NodeStored(D, node_id, step, now, counter, m, stats, health_metric,
               health_threshold, health_difference,
               HealthStatus(health_difference), cpu_score, plr_score,
               rtt_score)

\* the loop body from the threshold on
NodeThreshold(D, node_id, step, now, counter, m, stats, health_metric, health_threshold, cpu_score, plr_score, rtt_score) ==
    NodeCompared(D, node_id, step, now, counter, m, stats, health_metric,
                 health_threshold, Sub(health_metric, health_threshold),
                 cpu_score, plr_score, rtt_score)

\* the loop body from the scores on
NodeScored(beta, D, node_id, step, now, counter, m, stats, health_metric, cpu_score, plr_score, rtt_score) ==
    NodeThreshold(D, node_id, step, now, counter, m, stats, health_metric,
                  HealthThreshold(beta, D.ema_health, node_id,
                                  WeightedHealthScore(cpu_score, plr_score,
                                                      rtt_score)),
                  cpu_score, plr_score, rtt_score)

\* the loop body from the running statistics on: out is what
\* muAndsigma_per_node left of the new instance
NodeHealth(beta, D, node_id, step, now, counter, m, out) ==
    Only({NodeScored(beta,
                     [D EXCEPT !.counts = Put(D.counts, node_id,
                                              out.node_sample_counts[node_id])],
                     node_id, step, now, counter, m,
                     out.node_stats[node_id], health.value,
                     CpuScore(m.cpu), PlrScore(m.plr), RttScore(m.rtt)) :
             health \in {HealthMetric(Fog(out.node_stats,
                                          out.node_sample_counts),
                                      node_id, m.plr, m.rtt, m.cpu,
                                      out.result.PLR.mu, out.result.PLR.sigma,
                                      out.result.TTL.mu, out.result.TTL.sigma,
                                      out.result.CPU.mu,
                                      out.result.CPU.sigma)}})

\* the loop body from the degraded values m on: a new
\* fogNodeCharacterisation, which loads the snapshot, is updated with them
NodeDegraded(beta, D, file, node_id, step, now, counter, m) ==
    Only({NodeHealth(beta, D, node_id, step, now, counter, m, out) :
             out \in {MuAndSigma(LoadedStats(file), <<>>, node_id, m.plr,
                                 m.rtt, m.cpu)}})

\* the loop body from the sample on
NodeSampled(beta, D, file, node_id, step, now, counter, sample, d) ==
    Only({NodeDegraded(beta,
                       [D EXCEPT !.samples = Put(D.samples, node_id, sample)],
                       file, node_id, step, now, counter, m) :
             m \in {LayerAwareDegradation(Get(sample, "cycle", 0), node_id,
                                          sample.cpu, sample.plr, sample.rtt,
                                          NoLayer, d)}})

\* the loop of update_plot over all_node_ids from the i-th node on, draws
\* giving each node what its random state gives
RECURSIVE DatasetLoop(_, _, _, _, _, _, _, _)
DatasetLoop(beta, D, file, step, now, counter, draws, i) ==
    IF i > Len(all_node_ids) THEN D
    ELSE Only({DatasetLoop(beta, next, file, step, now, counter, draws, i + 1) :
                  next \in {NodeSampled(beta, D, file, all_node_ids[i], step,
                                        now, counter, sample,
                                        draws[all_node_ids[i]]) :
                                sample \in {SampleFor(file, all_node_ids[i],
                                                      DashboardBaseTime,
                                                      step)}}})

\* the dashboard's state the loop works on
Dataset ==
    [ema_health |-> ema_health, dataset |-> dataset,
     health |-> health_histories, cpu |-> cpu_histories,
     plr |-> plr_histories, rtt |-> rtt_histories,
     threshold |-> threshold_histories, node_metrics |-> <<>>,
     used |-> <<>>, counts |-> <<>>, samples |-> <<>>]

\* the latest status of a node in the rows
RECURSIVE LatestStatus(_, _, _)
LatestStatus(rows, node_id, idx) ==
    IF idx = 0 THEN "UNKNOWN"
    ELSE IF rows[idx].node_id = node_id THEN rows[idx].health_status
    ELSE LatestStatus(rows, node_id, idx - 1)

\* the state after update_plot, D being what the loop has built
DatasetTicked(D) ==
    /\ time_step' = time_step + 1
    /\ ema_health' = D.ema_health
    /\ dataset' = D.dataset
    /\ health_histories' = D.health
    /\ cpu_histories' = D.cpu
    /\ plr_histories' = D.plr
    /\ rtt_histories' = D.rtt
    /\ threshold_histories' = D.threshold
    /\ iteration_counter' = iteration_counter + 1
    /\ stats_file' = [exists |-> TRUE, node_metrics |-> D.node_metrics]
    /\ titles' = [n \in {sample_node_ids[i] : i \in 1..Len(sample_node_ids)} |->
                     LatestStatus(D.dataset, n, Len(D.dataset))]
    /\ ret' = [op |-> "dataset_update_plot", samples |-> D.samples,
               used |-> D.used, counts |-> D.counts]

\* the animation timer calls update_plot(frame) of the dataset dashboard
dataset_update_plot ==
    \E now \in Clock,
       draws \in [{all_node_ids[i] : i \in 1..Len(all_node_ids)} -> DegradeDraws] :
        /\ time_step < MaxTicks
        /\ DatasetTicked(DatasetLoop(ema_beta, Dataset, stats_file,
                                     time_step + 1, now, iteration_counter,
                                     draws, 1))
        /\ UNCHANGED calcVars
        /\ UNCHANGED fogVars

NextDataset == dataset_update_plot

\* the dataset dashboard, started without a snapshot file
SpecDataset == InitDefault /\ [][NextDataset]_vars

-----------------------------------------------------------------------------
(* What the claims speak about *)

\* the last operation was a call of calculate_health_metrics: by a client, or
\* by update_plot for the last node of its loop
IsCall == ret.op \in {"calculate_health_metrics", "update_plot"}

\* the node of that call
CallNode == Get(ret.node_data, "node_id", UNKNOWN)

\* the sample's fields as the call read them
CallCpu == Get(ret.node_data, "cpu", R(50))

CallPlr == Get(ret.node_data, "plr", <<1, 100>>)

CallRtt == Get(ret.node_data, "rtt", R(100))

CallAnomaly == Get(ret.node_data, "anomaly", "none")

\* the newest record of a node's history
LastRecord(n) == health_history[n][Len(health_history[n])]

\* x lies in [lo, hi]
Within(x, lo, hi) == Leq(lo, x) /\ Leq(x, hi)

Digits == {"0", "1", "2", "3", "4", "5", "6", "7", "8", "9"}

\* a node id of the form L{k}N_{nn} with k in 1..4
IsTierNodeId(id) ==
    /\ Len(id) = 6
    /\ id[1] = "L"
    /\ id[2] \in {"1", "2", "3", "4"}
    /\ id[3] = "N"
    /\ id[4] = "_"
    /\ id[5] \in Digits
    /\ id[6] \in Digits

\* the tier L{k} of such a node id
NodeTier(id) == <<"L", id[2]>>

\* the tier keys the pure scoring functions are checked for: L1..L4, the key
\* the call used, and a key that is in no table
TierKeys(used) == DOMAIN tier_config \cup {used, <<"L", "9">>}

-----------------------------------------------------------------------------
(* C1 *)

\* the call's result is the one tier `claimed` scoring gives
SameScoring(result, claimed) ==
    /\ result.tier = claimed.tier
    /\ result.health_threshold = Round2(claimed.health_threshold)
    /\ result.weighted_health_score = Round2(claimed.weighted_health_score)
    /\ result.cpu_subscore = Round2(claimed.subscores.cpu)
    /\ result.plr_subscore = Round2(claimed.subscores.plr)
    /\ result.rtt_subscore = Round2(claimed.subscores.rtt)

\* C1: a call for a node id L{k}N_{nn}, k in 1..4, scores the sample with the
\* configuration of tier L{k} (thresholds, weights, criticality multiplier)
\* and reports tier L{k}.
C1_ScoredWithOwnTier ==
    (IsCall /\ IsTierNodeId(CallNode)) =>
        SameScoring(ret.result,
                    Scored(node_metadata, CallNode, CallCpu, CallPlr, CallRtt,
                           CallAnomaly, NodeTier(CallNode)))

-----------------------------------------------------------------------------
(* C2 *)

\* C2: the first call for a node returns ema_health_score equal to
\* weighted_health_score and ema_health_threshold equal to health_threshold,
\* and the node's stored EMA values are the raw score and the raw threshold
\* of that call, whatever the sample and beta.
C2_FirstCallIdentity ==
    (IsCall /\ Len(health_history[CallNode]) = 1) =>
        /\ ret.result.ema_health_score = ret.result.weighted_health_score
        /\ ret.result.ema_health_threshold = ret.result.health_threshold
        /\ ema_health_scores[CallNode] = LastRecord(CallNode).raw_score
        /\ ema_thresholds[CallNode] = LastRecord(CallNode).raw_threshold
        /\ Round2(ema_health_scores[CallNode]) = ret.result.weighted_health_score
        /\ Round2(ema_thresholds[CallNode]) = ret.result.health_threshold

\* a first call with a beta other than the default and a raw score that is
\* neither 0 nor 100
C2_Witness ==
    /\ IsCall
    /\ Len(health_history[CallNode]) = 1
    /\ ema_beta = <<3, 2>>
    /\ Less(Zero, ema_health_scores[CallNode])
    /\ Less(ema_health_scores[CallNode], Hundred)

-----------------------------------------------------------------------------
(* C3 *)

\* node n was tracked and this step is a call for it
CalledAgain(n) ==
    /\ n \in DOMAIN ema_health_scores
    /\ Len(ListAt(health_history', n)) = Len(health_history[n]) + 1

\* the EMA values of n after the step are beta * raw + (1 - beta) * previous
EmaRecurrence(n, record) ==
    /\ ema_health_scores'[n] =
           Add(Mul(ema_beta, record.raw_score),
               Mul(Sub(One, ema_beta), ema_health_scores[n]))
    /\ ema_thresholds'[n] =
           Add(Mul(ema_beta, record.raw_threshold),
               Mul(Sub(One, ema_beta), ema_thresholds[n]))

\* C3: a call for an already observed node makes the stored EMA score
\* beta * raw_score + (1 - beta) * previous score and the stored EMA threshold
\* beta * raw_threshold + (1 - beta) * previous threshold, each series from its
\* own previous value, with the beta of the construction, which never changes.
C3_EmaRecurrence ==
    [][/\ ema_beta' = ema_beta
       /\ \A n \in AllNodeIds :
              CalledAgain(n) =>
                  EmaRecurrence(n, health_history'[n][Len(health_history'[n])])]_vars

\* a node called twice whose EMA values differ from the raw values of the
\* second call
C3_Witness ==
    \E n \in AllNodeIds :
        /\ n \in DOMAIN health_history
        /\ Len(health_history[n]) = 2
        /\ ema_health_scores[n] # LastRecord(n).raw_score
        /\ ema_thresholds[n] # LastRecord(n).raw_threshold

-----------------------------------------------------------------------------
(* C4 *)

\* EMA score minus EMA threshold of a tracked node
Difference(n) == Sub(ema_health_scores[n], ema_thresholds[n])

\* the nodes the dashboard displays
Displayed == {node_ids[i] : i \in 1..Len(node_ids)}

\* C4: the health_status a call returns is the node's EMA score minus its
\* EMA threshold (to the two decimals every returned number carries) and is
\* what get_health_status reports right after; the node is faulty, that is
\* the returned status is negative, exactly when the difference is negative,
\* and right after a tick a panel is titled FAULTY exactly when its node's
\* difference is negative.
C4_FaultyIffNegative ==
    IsCall =>
        /\ ret.result.health_status = Round2(Difference(CallNode))
        /\ ret.result.health_status =
               GetHealthStatus(ema_health_scores, ema_thresholds, CallNode).status
        /\ Less(ret.result.health_status, Zero) <=> Less(Difference(CallNode), Zero)
        /\ ret.op = "update_plot" =>
               \A n \in Displayed :
                   (titles[n] = "FAULTY") <=> Less(Difference(n), Zero)

-----------------------------------------------------------------------------
(* C5 *)

\* every tracked node has both EMA values, get_health_status is None exactly
\* for the nodes never observed, and for beta in (0,1) the values are in [0,100]
TrackedDefined ==
    /\ DOMAIN ema_health_scores = DOMAIN health_history
    /\ DOMAIN ema_thresholds = DOMAIN health_history
    /\ \A n \in AllNodeIds :
           (GetHealthStatus(ema_health_scores, ema_thresholds, n) = None)
               <=> (n \notin DOMAIN health_history)
    /\ (Less(Zero, ema_beta) /\ Less(ema_beta, One)) =>
           \A n \in DOMAIN ema_health_scores :
               /\ Within(ema_health_scores[n], Zero, Hundred)
               /\ Within(ema_thresholds[n], Zero, Hundred)

\* a tracked node stays tracked, and a call makes its node tracked
StaysTracked ==
    /\ DOMAIN ema_health_scores \subseteq DOMAIN ema_health_scores'
    /\ \A n \in AllNodeIds :
           Len(ListAt(health_history', n)) > Len(ListAt(health_history, n))
               => n \in DOMAIN ema_health_scores'

\* C5: a node is uninitialized until its first call and tracking ever after;
\* every tracked node has an EMA score and an EMA threshold, get_health_status
\* is None exactly for never-observed nodes, and for beta in (0,1) both
\* values lie in [0,100].
C5_TrackingStateMachine == []TrackedDefined /\ [][StaysTracked]_vars

\* beta in (0,1), a node called twice and a node never observed
C5_Witness ==
    /\ ema_beta = <<3, 10>>
    /\ \E n \in DOMAIN health_history : Len(health_history[n]) = 2
    /\ \E n \in AllNodeIds : n \notin DOMAIN ema_health_scores

-----------------------------------------------------------------------------
(* C6 *)

\* a subscore is clamp(100 - value / threshold * 100, 0, 100): in [0,100],
\* 100 at value 0, 0 from the threshold on
SubscoreOK(value, threshold, score) ==
    /\ Within(score, Zero, Hundred)
    /\ (value = Zero) => (score = Hundred)
    /\ Leq(threshold, value) => (score = Zero)
    /\ (Less(Zero, value) /\ Less(value, threshold)) =>
           score = Sub(Hundred, Div(Mul(value, Hundred), threshold))

SubscoresOK(cpu, plr, rtt, config, scores) ==
    /\ SubscoreOK(cpu, config.cpu_threshold, scores.cpu)
    /\ SubscoreOK(plr, config.plr_threshold, scores.plr)
    /\ SubscoreOK(rtt, config.rtt_threshold, scores.rtt)

\* C6: for the metrics of every call and every tier key (a key in no table
\* has L4's thresholds), each subscore is clamp(100 - value/threshold*100,
\* 0, 100); the call returns the subscores of its tier, rounded.
C6_Subscores ==
    IsCall =>
        /\ \A t \in TierKeys(ret.result.tier) :
               SubscoresOK(CallCpu, CallPlr, CallRtt, TierConfigGet(t),
                           calculate_metric_scores(CallCpu, CallPlr, CallRtt, t))
        /\ Within(ret.result.cpu_subscore, Zero, Hundred)
        /\ Within(ret.result.plr_subscore, Zero, Hundred)
        /\ Within(ret.result.rtt_subscore, Zero, Hundred)
        /\ ret.result.cpu_subscore =
               Round2(calculate_metric_scores(CallCpu, CallPlr, CallRtt,
                                              ret.result.tier).cpu)

\* a call with a tier key that is in no table and cpu at its threshold, which
\* is above the threshold of L1: the cpu subscore is 0 under both
C6_Witness ==
    /\ IsCall
    /\ ret.result.tier \notin DOMAIN tier_config
    /\ CallCpu = TierConfigGet(ret.result.tier).cpu_threshold
    /\ ret.result.cpu_subscore = Zero
    /\ Less(tier_config[L1].cpu_threshold, CallCpu)
    /\ calculate_metric_scores(CallCpu, CallPlr, CallRtt, L1).cpu = Zero

-----------------------------------------------------------------------------
(* C7 *)

\* the tier of a node: L{k} for L{k}N_{nn}, else what the id's prefix gives
TierOfNode(id) == IF IsTierNodeId(id) THEN NodeTier(id) ELSE get_node_tier(id)

\* C7: the raw threshold a call returns is clamp(60 + 10 * criticality
\* multiplier of the node's tier + (-20 when the anomaly is not "none") + the
\* node adjustment of the metadata, 20, 95).
C7_ThresholdOfNodeTier ==
    IsCall =>
        ret.result.health_threshold =
            Round2(AdaptiveThreshold(
                       TierConfigGet(TierOfNode(CallNode)).criticality_multiplier,
                       AnomalyAdjustment(CallAnomaly),
                       NodeAdjustment(node_metadata, CallNode)))

-----------------------------------------------------------------------------
(* C8 *)

\* the weights of every tier are a convex combination, and every impact
\* factor lies in [0,1]
TablesConvex ==
    /\ \A t \in DOMAIN tier_config :
           /\ Add(Add(tier_config[t].weights.cpu, tier_config[t].weights.plr),
                  tier_config[t].weights.rtt) = One
           /\ Leq(Zero, tier_config[t].weights.cpu)
           /\ Leq(Zero, tier_config[t].weights.plr)
           /\ Leq(Zero, tier_config[t].weights.rtt)
    /\ \A a \in DOMAIN anomaly_impact : Within(anomaly_impact[a], Zero, One)

\* the anomalies of a fully-down node
DownAnomalies == {"silence", "fibre_cut", "offline"}

\* score is the weighted sum of the subscores s times the anomaly's impact
WeightedScoreOK(anomaly, s, sum, score) ==
    /\ Within(score, Zero, Hundred)
    /\ Leq(Min(s.cpu, Min(s.plr, s.rtt)), sum)
    /\ Leq(sum, Max(s.cpu, Max(s.plr, s.rtt)))
    /\ (anomaly = "none") => (score = sum)
    /\ (anomaly \in DownAnomalies) => (score = Zero)
    /\ (anomaly \in DOMAIN anomaly_impact) => (score = Mul(sum, anomaly_impact[anomaly]))

\* the score of the call's metrics under tier key t and anomaly a is as claimed
WeightedScoreAt(t, a) ==
    WeightedScoreOK(a,
        calculate_metric_scores(CallCpu, CallPlr, CallRtt, t),
        WeightedSum(CallCpu, CallPlr, CallRtt, t),
        calculate_weighted_health_score(CallCpu, CallPlr, CallRtt, t, a))

\* C8: the raw weighted score of a call's metrics is the tier's convex
\* combination of the subscores times the anomaly's impact factor, in
\* [0,100], for every tier key with the call's anomaly and for the call's
\* tier key with "none" and each fully-down anomaly: the plain weighted sum
\* for "none" and 0 for silence, fibre_cut and offline; the weights of L1..L4
\* sum to 1 and every impact factor is in [0,1]; the call returns the score
\* of its tier key, rounded.
C8_WeightedScore ==
    /\ TablesConvex
    /\ IsCall =>
        /\ \A t \in TierKeys(ret.result.tier) : WeightedScoreAt(t, CallAnomaly)
        /\ \A a \in DownAnomalies \cup {"none"} : WeightedScoreAt(ret.result.tier, a)
        /\ ret.result.weighted_health_score =
               Round2(calculate_weighted_health_score(CallCpu, CallPlr, CallRtt,
                                                      ret.result.tier, CallAnomaly))

\* a call with anomaly "silence" whose weighted sum is positive: the score is 0
C8_Witness ==
    /\ IsCall
    /\ CallAnomaly = "silence"
    /\ Less(Zero, WeightedSum(CallCpu, CallPlr, CallRtt, ret.result.tier))
    /\ ret.result.weighted_health_score = Zero

-----------------------------------------------------------------------------
(* C9 *)

\* the most recent k elements of a list, all of them when it has fewer
MostRecent(list, k) ==
    SubSeq(list, (IF k > Len(list) THEN 0 ELSE Len(list) - k) + 1, Len(list))

\* C9: get_health_history(node, K) returns the most recent K records of the
\* node (all of them when fewer than K exist), so never more than K, for
\* every K >= 0.
C9_AtMostK ==
    (ret.op = "get_health_history") =>
        /\ Len(ret.result) <= ret.max_points
        /\ ret.result = MostRecent(ListAt(health_history, ret.node_id), ret.max_points)

-----------------------------------------------------------------------------
(* C10 *)

\* C10: get_health_history returns the records most recent first: the first
\* element returned is the record the latest call for the node appended.
C10_MostRecentFirst ==
    (ret.op = "get_health_history" /\ Len(ret.result) > 0) =>
        ret.result[1] = LastRecord(ret.node_id)


-----------------------------------------------------------------------------
(* C21 *)

\* the raw value was the EMA value already, and the call keeps it; otherwise
\* the distance of the EMA value to the raw value is |1 - beta| times what it
\* was, and no larger
Converges(raw, previous, updated) ==
    /\ previous = raw => updated = raw
    /\ AbsQ(Sub(updated, raw)) = Mul(AbsQ(Sub(One, ema_beta)), AbsQ(Sub(previous, raw)))
    /\ Leq(AbsQ(Sub(updated, raw)), AbsQ(Sub(previous, raw)))

\* both EMA series of n move towards the raw values of the record
ConvergesTo(n, record) ==
    /\ Converges(record.raw_score, ema_health_scores[n], ema_health_scores'[n])
    /\ Converges(record.raw_threshold, ema_thresholds[n], ema_thresholds'[n])

\* C21: a node fed the same raw score and raw threshold on every call has
\* EMA values that converge to them: from the first observation on they equal
\* the raw values on every call, and otherwise each call multiplies the
\* distance |ema - raw| by (1 - beta) and never lets it grow
C21_EmaConverges ==
    [][\A n \in AllNodeIds :
           CalledAgain(n) =>
               ConvergesTo(n, health_history'[n][Len(health_history'[n])])]_vars

-----------------------------------------------------------------------------
(* C27 *)

\* the step leaves the entry of node b in the dict d as it is: absent, or
\* present with the same value
Untouched(d, after, b) ==
    /\ b \in DOMAIN after <=> b \in DOMAIN d
    /\ b \in DOMAIN d => after[b] = d[b]

\* the step is a client's call of calculate_health_metrics for node a
IsCallFor(a) ==
    /\ ret'.op = "calculate_health_metrics"
    /\ Get(ret'.node_data, "node_id", UNKNOWN) = a
    /\ Len(ListAt(health_history', a)) = Len(ListAt(health_history, a)) + 1

\* every node other than a keeps its EMA score, EMA threshold and history
OthersUntouched(a) ==
    \A b \in AllNodeIds \ {a} :
        /\ Untouched(ema_health_scores, ema_health_scores', b)
        /\ Untouched(ema_thresholds, ema_thresholds', b)
        /\ Untouched(health_history, health_history', b)

\* C27: calculate_health_metrics for node A changes only A's EMA score, EMA
\* threshold and history, every other node keeps its EMA values and its
\* history, and no call changes beta (the tier configuration and the
\* anomaly-impact table are never assigned after construction)
C27_OnlyTheCalledNode ==
    [][/\ ema_beta' = ema_beta
       /\ \A a \in AllNodeIds : IsCallFor(a) => OthersUntouched(a)]_vars

\* a call for one node while another node is tracked with other EMA values
C27_Witness ==
    /\ ret.op = "calculate_health_metrics"
    /\ \E b \in DOMAIN ema_health_scores \ {CallNode} :
          /\ ema_health_scores[b] # ema_health_scores[CallNode]
          /\ ema_thresholds[b] # ema_thresholds[CallNode]

-----------------------------------------------------------------------------
(* The dispatcher and the generators *)

\* ret is what a get_node_sample call left
IsSampleCall == ret.op = "get_node_sample"

\* the call's node id has none of the prefixes L1N .. L4N
UnknownPrefix == Prefix3(ret.node_id) \notin DOMAIN generator_config

\* the fields calculate_health_metrics returns
HealthMetricFields ==
    {"health_threshold", "weighted_health_score", "ema_health_score",
     "ema_health_threshold", "health_status", "tier", "cpu_subscore",
     "plr_subscore", "rtt_subscore", "anomaly_type"}

\* the sample is the fixed default one
IsDefaultSample(sample) ==
    /\ sample.cpu = R(50)
    /\ sample.plr = <<1, 100>>
    /\ sample.rtt = R(100)
    /\ sample.anomaly = "none"

\* the sample carries the health metrics computed from it
WithHealthMetrics(sample) ==
    /\ HealthMetricFields \subseteq DOMAIN sample
    /\ \A f \in HealthMetricFields :
           sample[f] = CalculateHealthMetrics(ema_beta, node_metadata, Calc,
                                              sample).result[f]

\* C11: for a node id whose prefix is none of L1N .. L4N, get_node_sample
\* returns the fixed default sample cpu 50.0, plr 0.01, rtt 100.0, anomaly
\* "none", whatever the time step, together with the health metrics
\* computed from that sample.
C11_DefaultWithHealthMetrics ==
    (IsSampleCall /\ UnknownPrefix) =>
        /\ ~ret.result.raised
        /\ IsDefaultSample(ret.result.value)
        /\ WithHealthMetrics(ret.result.value)

\* what a call returned has the fields of the given sample, unless it raised
SameFields(r, sample) == ~r.raised => DOMAIN r.value = DOMAIN sample

\* C12: get_node_sample never propagates a failure: for every node id, those
\* absent from the node list and those whose numeric suffix cannot be parsed
\* included, and every time step it returns a record, and every record it
\* returns has the same set of fields.
C12_AlwaysACompleteRecord ==
    IsSampleCall =>
        /\ ~ret.result.raised
        /\ \A other \in SampleNodeIds :
               SameFields(NodeSample(other, ret.base_time, ret.time_step,
                                     ret.node_list),
                          ret.result.value)

\* ret is what a generator call left, and the generator returned its rows
IsGeneratorCall == ret.op = "generate_node_samples" /\ ~ret.result.raised

\* the rows of that call
CallRows == ret.result.rows

\* a row with the values of an overloaded L1 or L4 node
IsOverload(row) ==
    row.cpu = R(100) /\ row.plr = <<1, 5>> /\ row.rtt = R(400)

\* a row whose values are inside the clip range of its tier
InClipRange(cfg, row) ==
    /\ Leq(cfg.lo[1], row.cpu) /\ Leq(row.cpu, cfg.hi[1])
    /\ Leq(cfg.lo[2], row.plr) /\ Leq(row.plr, cfg.hi[2])
    /\ Leq(cfg.lo[3], row.rtt) /\ Leq(row.rtt, cfg.hi[3])

\* what C19 asks of one row of the tier with the given prefix
RowOK(prefix, row) ==
    /\ (prefix \in {L1N, L4N} /\ row.anomaly = "overload") => IsOverload(row)
    /\ row.anomaly = "none" => InClipRange(generator_config[prefix], row)

\* C19: every record of the L1 and of the L4 generator tagged "overload" is
\* exactly cpu 100, plr 0.2, rtt 400, and every record a generator tags
\* "none" has cpu, plr and rtt inside the clip range of its tier.
C19_OverloadExactNoneClipped ==
    IsGeneratorCall =>
        \A k \in 1..Len(CallRows) : RowOK(ret.prefix, CallRows[k])

\* an L4 call returned an overloaded row and a row without anomaly whose
\* cpu was clipped to the upper end of the range
C19_Witness ==
    /\ IsGeneratorCall
    /\ ret.prefix = L4N
    /\ \E k \in 1..Len(CallRows) : CallRows[k].anomaly = "overload"
    /\ \E k \in 1..Len(CallRows) :
           /\ CallRows[k].anomaly = "none"
           /\ CallRows[k].cpu = generator_config[L4N].hi[1]

\* ret is what a generator call left, rows or an error
IsGeneratorRun == ret.op = "generate_node_samples"

\* the same generator call made again when the clock shows now
Rerun(now) ==
    GenerateSamples(ret.prefix, ret.num_nodes, ret.base_time, ret.fault_rate,
                    ret.anomaly_types, ret.seed, ret.iterations, now)

\* a record without its timestamp
Untimed(row) == [f \in DOMAIN row \ {"timestamp"} |-> row[f]]

\* what a generator returned, timestamps left out
UntimedRun(r) ==
    IF r.raised THEN r
    ELSE [raised |-> FALSE,
          rows |-> [k \in 1..Len(r.rows) |-> Untimed(r.rows[k])]]

\* the measurements and the timestamp of a sample returned by get_node_sample
Measured(r) ==
    [f \in {"timestamp", "cpu", "plr", "rtt", "anomaly"} |-> r.value[f]]

\* a second get_node_sample call with the same base_time and node list
\* returns the measurements of the first when it returns
SameMeasured(r, first) == ~r.raised => Measured(r) = Measured(first)

-----------------------------------------------------------------------------
(* The running statistics of fogNodeCharacterisation *)

\* the running statistics the instance holds for a node and a metric
StatsOf(node_id, m) == node_stats[node_id][m]

\* C13: after any sequence of muAndsigma_per_node calls the stored sigma of
\* every node and metric is at least MIN_SIGMA of the metric, also when all
\* values were the same, and it is INITIAL_SIGMA of the metric when n is 1.
C13_SigmaFloored ==
    \A node_id \in DOMAIN node_stats, m \in Metrics :
        /\ Leq(MIN_SIGMA[m], StatsOf(node_id, m).sigma)
        /\ StatsOf(node_id, m).n = 1 =>
               StatsOf(node_id, m).sigma = INITIAL_SIGMA[m]

\* a node was fed the same cpu value at least twice, and its ttl values
\* differed by less than the floor: both deviations are the floor
C13_Witness ==
    \E node_id \in DOMAIN node_stats :
        /\ StatsOf(node_id, "CPU").n >= 2
        /\ StatsOf(node_id, "CPU").sum_sq = Zero
        /\ StatsOf(node_id, "CPU").sigma = MIN_SIGMA.CPU
        /\ \E other \in DOMAIN node_stats :
               /\ StatsOf(other, "TTL").sum_sq # Zero
               /\ StatsOf(other, "TTL").sigma = MIN_SIGMA.TTL

\* the values of metric m fed for the node, in the order of the calls
RECURSIVE FedValues(_, _, _)
FedValues(calls, node_id, m) ==
    IF calls = <<>> THEN <<>>
    ELSE IF calls[1].node_id = node_id
    THEN <<calls[1][m]>> \o FedValues(Tail(calls), node_id, m)
    ELSE FedValues(Tail(calls), node_id, m)

\* the sum of a sequence of values
RECURSIVE SumOf(_)
SumOf(xs) == IF xs = <<>> THEN Zero ELSE Add(xs[1], SumOf(Tail(xs)))

\* the squared deviations of the values from mean
SquaredDeviations(xs, mean) ==
    [k \in 1..Len(xs) |-> Mul(Sub(xs[k], mean), Sub(xs[k], mean))]

\* the running statistics are those of the batch xs with the given mean and
\* sum of squared deviations
IsBatch(m, stats, xs, mean, ss) ==
    /\ stats.n = Len(xs)
    /\ stats.mu = mean
    /\ stats.sum_sq = ss
    /\ stats.sigma = Max(Sqrt(Div(ss, R(Len(xs) - 1))), MIN_SIGMA[m])

\* the running statistics are those of the batch xs with the given mean
IsBatchAround(m, stats, xs, mean) ==
    IsBatch(m, stats, xs, mean, SumOf(SquaredDeviations(xs, mean)))

\* the running statistics are those of the batch xs
IsBatchOf(m, stats, xs) ==
    Len(xs) >= 2 => IsBatchAround(m, stats, xs, Div(SumOf(xs), R(Len(xs))))

\* C14: feeding x1 .. xn, n >= 2, to a node of a fresh instance leaves mu the
\* mean of the batch, sum_sq the sum of its squared deviations from the
\* mean, and sigma the larger of the Bessel-corrected sample deviation and
\* MIN_SIGMA of the metric.
C14_WelfordIsBatch ==
    \A node_id \in DOMAIN node_stats, m \in Metrics :
        IsBatchOf(m, StatsOf(node_id, m), FedValues(fed, node_id, m))

\* a node was fed three values that are not all the same
C14_Witness ==
    \E node_id \in DOMAIN node_stats :
        /\ StatsOf(node_id, "CPU").n >= 3
        /\ StatsOf(node_id, "CPU").sum_sq # Zero
        /\ StatsOf(node_id, "CPU").sigma # MIN_SIGMA.CPU

\* ret is what a healthMetric call left
IsHealthCall == ret.op = "healthMetric"

\* the number of samples the instance has counted for the node of the call
CallCount == Get(node_sample_counts, ret.node_id, 0)

\* the unsmoothed h of the call: the weighted z-scores of its arguments
\* against the node's running statistics
CallH ==
    HealthOf(Fog(node_stats, node_sample_counts), ret.plr, ret.ttl, ret.cpu,
             StatsOf(ret.node_id, "PLR").mu, StatsOf(ret.node_id, "PLR").sigma,
             StatsOf(ret.node_id, "TTL").mu, StatsOf(ret.node_id, "TTL").sigma,
             StatsOf(ret.node_id, "CPU").mu, StatsOf(ret.node_id, "CPU").sigma)

\* what the call returned is h, kept as the node's EMA
FirstSmoothed(r, node_id, h) ==
    /\ r.value = h
    /\ "ema_health" \in DOMAIN r
    /\ Get(r.ema_health, node_id, None) = h

\* C16: on one instance healthMetric returns the unsmoothed h while the
\* node's sample count is at most warmup_samples; the first call with the
\* count above it returns h and keeps it as the node's EMA, from which the
\* later calls smooth with ALPHA.
C16_WarmupThenEma ==
    IsHealthCall =>
        /\ ~ret.result.raised
        /\ CallCount <= warmup_samples => ret.result.value = CallH
        /\ CallCount > warmup_samples =>
               FirstSmoothed(ret.result, ret.node_id, CallH)


-----------------------------------------------------------------------------
(* The dataset dashboard *)

\* the rows of the dataset that belong to the node, in the order recorded
RowsOf(node_id) == SelectSeq(dataset, LAMBDA row : row.node_id = node_id)

\* the row records the constants of the always-perfect cloud node
IsPerfectRow(row) ==
    /\ row.cpu = R(5)
    /\ row.plr = Zero
    /\ row.rtt = R(2)
    /\ row.anomaly_type = Normal

\* C18: for the cloud node of create_node_list, "CloudDB_Server", the
\* degradation called by the dashboard tick without a layer returns cpu 5.0,
\* plr 0.0, rtt 2.0 and anomaly "normal" on every tick: every row the
\* dataset holds for the cloud node records these values
C18_CloudNodeIsPerfect ==
    \A i \in 1..Len(dataset) :
        dataset[i].node_id = CloudDB_Server => IsPerfectRow(dataset[i])


\* the last operation was a tick of the dataset dashboard
IsDatasetTick == ret.op = "dataset_update_plot"

\* the statistics muAndsigma_per_node left for the node in the last tick
UsedStats(node_id) == ret.used[node_id]

\* the entry of the node in the snapshot file
Snapshot(node_id) == stats_file.node_metrics[node_id]

\* the snapshot holds the count, mean, deviation and sum of squares that the
\* update of the tick left for the metric
SnapshotContinues(node_id, m) ==
    /\ Snapshot(node_id)[m].n = UsedStats(node_id)[m].n
    /\ Snapshot(node_id)[m].mu = UsedStats(node_id)[m].mu
    /\ Snapshot(node_id)[m].sigma = UsedStats(node_id)[m].sigma
    /\ Snapshot(node_id)[m].sum_sq = UsedStats(node_id)[m].sum_sq

\* C15: at tick k of the dataset dashboard, for every node and each metric,
\* the count n of the running-statistics update is k, the number of the
\* node's observations so far (so it grows by one with every tick), and the
\* snapshot written at the end of the tick stores this n with the latest mu,
\* sigma and sum_sq
C15_CountIsObservations ==
    IsDatasetTick =>
        \A node_id \in DOMAIN ret.used : \A m \in Metrics :
            /\ UsedStats(node_id)[m].n = time_step
            /\ SnapshotContinues(node_id, m)


\* the naive score of a row, from the scores the row records
NaiveScore(row) ==
    Add(Add(Mul(<<3, 10>>, row.cpu_score), Mul(<<3, 10>>, row.plr_score)),
        Mul(<<2, 5>>, row.rtt_score))

\* the i-th threshold of the rows of one node is the EMA of the naive scores
\* up to it
IsEmaOfNaive(rows, i) ==
    rows[i].health_threshold =
        IF i = 1 THEN NaiveScore(rows[1])
        ELSE Add(Mul(ema_beta, NaiveScore(rows[i])),
                 Mul(Sub(One, ema_beta), rows[i - 1].health_threshold))

\* the status of the row follows the sign of health_metric - health_threshold
StatusBySign(row) ==
    row.health_status =
        IF Less(row.health_metric, row.health_threshold) THEN "FAULTY"
        ELSE "GOOD"

\* the rows of the node follow the threshold and status rules
RowsFollowRules(rows) ==
    \A i \in 1..Len(rows) : IsEmaOfNaive(rows, i) /\ StatusBySign(rows[i])

\* C17: in every tick of the dataset dashboard and for every node, the
\* health threshold is the EMA with factor beta, initialised to the first
\* value, of 0.3*cpu_score + 0.3*plr_score + 0.4*rtt_score, and the status
\* recorded is "GOOD" exactly when health_metric - health_threshold >= 0 and
\* "FAULTY" otherwise, so no other status is in the dataset
C17_ThresholdAndStatus ==
    \A n \in 1..Len(all_node_ids) : RowsFollowRules(RowsOf(all_node_ids[n]))

\* both statuses are recorded, one of them in a tick after the node's first
C17_Witness ==
    /\ \E i \in 1..Len(dataset) : dataset[i].health_status = "FAULTY"
    /\ \E n \in 1..Len(all_node_ids) :
          /\ Len(RowsOf(all_node_ids[n])) >= 2
          /\ RowsOf(all_node_ids[n])[Len(RowsOf(all_node_ids[n]))].health_status = "GOOD"


-----------------------------------------------------------------------------
(* The layer-aware degradation *)

\* the last operation was a call of generate_layer_aware_degradation
IsDegradation == ret.op = "generate_layer_aware_degradation"

\* the call was for the cloud node: by its id or by layer 0
ForCloud == ret.node_id \in {CloudDB_Server, CloudDBServer} \/ ret.layer = R(0)

\* the layer of the node of the call, and that layer's configuration
CallLayer == LayerOf(ret.node_id, ret.layer)

CallConfig == layer_config[CallLayer]

\* the call's cycle was one of periodic stress
IsStressCycle ==
    /\ CallLayer # Half
    /\ ret.cycle % RandInt(CallConfig.stress_interval, ret.draws.randint) = 0

\* the metrics returned lie within the maxima of the configuration
WithinMaxima(result, cfg) ==
    /\ Leq(Zero, result.cpu) /\ Leq(result.cpu, cfg.max_cpu)
    /\ Leq(Zero, result.plr) /\ Leq(result.plr, cfg.max_plr)
    /\ Leq(One, result.rtt) /\ Leq(result.rtt, cfg.max_rtt)

\* C22: for every node other than the cloud node, every cycle and all
\* non-negative inputs the degradation returns 0 <= cpu <= max_cpu,
\* 0 <= plr <= max_plr and 1 <= rtt <= max_rtt of the node's layer, on the
\* cycles of a stress burst too
C22_WithinLayerMaxima ==
    (IsDegradation /\ ~ForCloud) => WithinMaxima(ret.result, CallConfig)

\* a stress burst on values that the degradation had already taken above
\* the layer's maxima
C22_Witness ==
    /\ IsDegradation
    /\ ~ForCloud
    /\ IsStressCycle
    /\ Less(CallConfig.max_cpu, ret.cpu)
    /\ Less(CallConfig.max_rtt, ret.rtt)
    /\ ret.result.cpu = CallConfig.max_cpu
    /\ ret.result.rtt = CallConfig.max_rtt


\* the metrics of the call before the classification
CallMetrics ==
    DegradedMetrics(ret.cycle, ret.cpu, ret.plr, ret.rtt, CallLayer,
                    CallConfig, ret.draws)

\* the call took the special case of the cloud database
IsSpecialCase == ret.node_id = CloudDBServer \/ ret.layer = R(0)

\* the tag of a severity and a recovery flag: the first bucket the severity
\* exceeds, then recovery, else normal
BucketTag(tag_layer, severity, recovery_applied) ==
    IF Less(<<4, 5>>, severity) THEN <<"L", tag_layer, "_">> \o Critical
    ELSE IF Less(<<3, 5>>, severity) THEN <<"L", tag_layer, "_">> \o Severe
    ELSE IF Less(<<2, 5>>, severity) THEN <<"L", tag_layer, "_">> \o Moderate
    ELSE IF Less(<<1, 5>>, severity) THEN <<"L", tag_layer, "_">> \o Mild
    ELSE IF recovery_applied THEN <<"L", tag_layer, "_">> \o Recovery
    ELSE Normal

\* the digit of the layer in a tag; the backbone node is a node of layer 1
TagLayer == IF CallLayer = Half THEN "1" ELSE Digits10[CallLayer[1] + 1]

\* the tag the buckets give the call
CallBucketTag ==
    IF IsSpecialCase THEN Normal
    ELSE BucketTag(TagLayer, Severity(CallLayer, CallMetrics),
                   CallMetrics.recovery_applied)

\* C23: the anomaly tag returned is always L{layer}_critical,
\* L{layer}_severe, L{layer}_moderate, L{layer}_mild, L{layer}_recovery or
\* normal for the node's layer: the first of severity > 0.8, > 0.6, > 0.4,
\* > 0.2 that holds, then recovery when a recovery was applied, else normal
C23_TagIsBucket ==
    IsDegradation => ret.result.anomaly = CallBucketTag

\* the tag of the backbone node: a warning above the severity 0.3
BackboneTag(severity) ==
    IF Less(<<3, 10>>, severity) THEN BackboneWarning ELSE Normal

\* C23 as the code has it: the buckets choose the tag of a node of the
\* layers 1 to 4; the backbone node L1N_01 (layer 0.5) is tagged
\* L1_backbone_warning when its severity exceeds 0.3 and normal otherwise,
\* and the special case of the cloud database is tagged normal
C23_TagByKindOfNode ==
    IsDegradation =>
        ret.result.anomaly =
            IF ~IsSpecialCase /\ CallLayer = Half
            THEN BackboneTag(Severity(Half, CallMetrics))
            ELSE CallBucketTag

\* a node of a layer tagged with its layer's recovery, a severity of at most
\* 0.2 with a recovery applied
C23_Witness ==
    /\ IsDegradation
    /\ ~IsSpecialCase
    /\ CallLayer # Half
    /\ CallMetrics.recovery_applied
    /\ ret.result.anomaly = <<"L", TagLayer, "_">> \o Recovery


\* the call was for a node of one of the layers 1 to 4
ForLayerNode == IsDegradation /\ ~IsSpecialCase /\ CallLayer # Half

\* the severity stays at 0.2 or below, so the tag is normal or the recovery
LowSeverity ==
    /\ Leq(Severity(CallLayer, CallMetrics), <<1, 5>>)
    /\ Leq(ret.result.severity, <<1, 5>>)
    /\ ret.result.anomaly \in {Normal, <<"L", TagLayer, "_">> \o Recovery}

\* C30: the outputs being capped at the layer's maxima before the severity
\* is computed, the degradation never returns L{layer}_critical for a layer
\* 1 to 4, whatever the cycle and the inputs, and for the layers 1 and 2 the
\* severity never exceeds 0.2, so that their tag is normal or
\* L{layer}_recovery
C30_NeverCritical ==
    ForLayerNode =>
        /\ ret.result.anomaly # <<"L", TagLayer, "_">> \o Critical
        /\ Leq(ret.result.severity, <<4, 5>>)
        /\ CallLayer \in {R(1), R(2)} => LowSeverity

\* a node of layer 2 whose three metrics are returned at the layer's maxima
C30_Witness ==
    /\ ForLayerNode
    /\ CallLayer = R(2)
    /\ ret.result.cpu = CallConfig.max_cpu
    /\ ret.result.plr = CallConfig.max_plr
    /\ ret.result.rtt = CallConfig.max_rtt
    /\ Less(Zero, ret.result.severity)


\* the call was for the backbone node, its layer inferred from the id
ForBackbone == IsDegradation /\ ret.node_id = L1N_01 /\ ret.layer = NoLayer

\* keep * old + (1 - keep) * baseline, capped at the maximum
TowardsCapped(old, keep, baseline, maximum) ==
    Min(maximum, Add(Mul(keep, old), Mul(Sub(One, keep), baseline)))

\* the call was made with the output of the call before, and a metric that
\* was above its baseline has not increased and is not below the baseline
Settles(old, new, baseline) ==
    Less(baseline, old) => Leq(new, old) /\ Leq(baseline, new)

SettlesAll ==
    ret.fed >= 1 =>
        /\ Settles(ret.cpu, ret.result.cpu, R(8))
        /\ Settles(ret.plr, ret.result.plr, <<1, 10000>>)
        /\ Settles(ret.rtt, ret.result.rtt, R(5))

\* C24: for the backbone node L1N_01, its layer inferred from the id, the
\* output is the convex combination towards the baseline, cpu 0.9*old +
\* 0.1*8.0, plr 0.8*old + 0.2*0.0001 and rtt 0.85*old + 0.15*5.0, capped at
\* the backbone's maxima, whatever the cycle and the random draws; and when
\* the outputs are fed back as the next inputs, a metric above its baseline
\* never increases and never drops below the baseline
C24_ConvexCombination ==
    ForBackbone =>
        /\ ret.result.cpu = TowardsCapped(ret.cpu, <<9, 10>>, R(8), R(15))
        /\ ret.result.plr = TowardsCapped(ret.plr, <<4, 5>>, <<1, 10000>>, <<1, 1000>>)
        /\ ret.result.rtt = TowardsCapped(ret.rtt, <<17, 20>>, R(5), R(30))
        /\ SettlesAll

\* C24 as the code has it: the convex combination capped at the maxima is
\* returned rounded, cpu to 2, plr to 4 and rtt to 1 decimals, cpu and plr
\* at least 0 and rtt at least 1; fed back, a metric above its baseline never
\* increases and never drops below the baseline
C24_RoundedConvexCombination ==
    ForBackbone =>
        /\ ret.result.cpu =
               RoundTo(Max(Zero, TowardsCapped(ret.cpu, <<9, 10>>, R(8), R(15))), 100)
        /\ ret.result.plr =
               RoundTo(Max(Zero, TowardsCapped(ret.plr, <<4, 5>>, <<1, 10000>>,
                                               <<1, 1000>>)), 10000)
        /\ ret.result.rtt =
               RoundTo(Max(One, TowardsCapped(ret.rtt, <<17, 20>>, R(5), R(30))), 10)
        /\ SettlesAll

\* the backbone node fed with its own output, cpu and rtt above the baseline
\* and coming down
C24_Witness ==
    /\ ForBackbone
    /\ ret.fed >= 1
    /\ Less(R(8), ret.result.cpu) /\ Less(ret.result.cpu, ret.cpu)
    /\ Less(R(5), ret.result.rtt) /\ Less(ret.result.rtt, ret.rtt)


-----------------------------------------------------------------------------
(* The dataset dashboard: histories, snapshot and health metric *)

\* the nodes displayed
ShownNodes == {sample_node_ids[i] : i \in 1..Len(sample_node_ids)}

\* the columns of the dataset
Columns ==
    {"timestamp", "node_id", "plr", "cpu", "rtt", "health_metric",
     "health_threshold", "health_difference", "health_status", "anomaly_type",
     "cpu_score", "plr_score", "rtt_score"}

\* the length of a display history after k ticks
WindowLen(k) == IF k < maxlen THEN k ELSE maxlen

\* the history holds the column's most recent values of the node's rows
IsWindowOf(hist, rows, column) ==
    /\ Len(hist) = WindowLen(Len(rows))
    /\ \A i \in 1..Len(hist) : hist[i] = rows[Len(rows) - Len(hist) + i][column]

\* the display history hist_dict has an entry for the displayed nodes only,
\* each the window of the column
IsDisplayOf(hist_dict, column) ==
    /\ DOMAIN hist_dict = (IF time_step = 0 THEN {} ELSE ShownNodes)
    /\ \A n \in DOMAIN hist_dict :
          /\ Len(hist_dict[n]) = WindowLen(time_step)
          /\ IsWindowOf(hist_dict[n], RowsOf(n), column)

\* what holds after k = time_step ticks
HistoriesAndRows ==
    /\ IsDisplayOf(health_histories, "health_metric")
    /\ IsDisplayOf(cpu_histories, "cpu_score")
    /\ IsDisplayOf(plr_histories, "plr_score")
    /\ IsDisplayOf(rtt_histories, "rtt_score")
    /\ IsDisplayOf(threshold_histories, "health_threshold")
    /\ Len(dataset) = time_step * Len(all_node_ids)
    /\ \A i \in 1..Len(dataset) : DOMAIN dataset[i] = Columns

\* the step only appends rows to the dataset
RowsAppended ==
    /\ Len(dataset') >= Len(dataset)
    /\ SubSeq(dataset', 1, Len(dataset)) = dataset

AllNodes == {all_node_ids[i] : i \in 1..Len(all_node_ids)}

\* the latest row of the node in the dataset
LatestRow(node_id) == RowsOf(node_id)[Len(RowsOf(node_id))]

\* the sample is the node's entry of the snapshot, which holds the degraded
\* output and the time_step of the tick before
IsFedBack(sample, node_id) ==
    /\ sample = stats_file.node_metrics[node_id]
    /\ sample.cpu = LatestRow(node_id).cpu
    /\ sample.plr = LatestRow(node_id).plr
    /\ sample.rtt = LatestRow(node_id).rtt
    /\ sample.cycle = time_step

\* a tick takes every sample from the snapshot when there is one, and from
\* get_node_sample when there is none
SamplesOfTick ==
    time_step' = time_step + 1 =>
        \A n \in AllNodes :
            IF stats_file.exists /\ n \in DOMAIN stats_file.node_metrics
            THEN IsFedBack(ret'.samples[n], n)
            ELSE ret'.samples[n] =
                     NodeSample(n, DashboardBaseTime, time_step', NodeListRows).value

\* the snapshot has one entry for every node
SnapshotComplete ==
    stats_file.exists => DOMAIN stats_file.node_metrics = AllNodes

\* C26: once the first tick has written the snapshot, the input cpu, plr
\* and rtt of each node in every later tick are the node's degraded output
\* of the tick before and the cycle given to the degradation is that tick's
\* time_step; get_node_sample is used only for a node missing from the
\* snapshot or when there is no snapshot, and the snapshot of each tick has
\* one entry for every node of all_node_ids
C26_FedFromSnapshot == []SnapshotComplete /\ [][SamplesOfTick]_vars

\* a second or later tick, whose samples carry the cycle of the tick before
\* and differ from what the tick before was given
C26_Witness ==
    /\ IsDatasetTick
    /\ time_step >= 2
    /\ \A n \in AllNodes :
          /\ ret.samples[n].cycle = time_step - 1
          /\ ret.samples[n].cpu = RowsOf(n)[time_step - 1].cpu
          /\ ret.samples[n].cpu # RowsOf(n)[time_step].cpu


\* the weighted sum of the z-scores of the row's values against the
\* statistics the tick computed, the deviations floored, with no smoothing
UnsmoothedHealth(row, stats) ==
    Add(Add(Mul(WEIGHTS.PLR,
                ZScore(row.plr, stats.PLR.mu, Max(stats.PLR.sigma, MIN_SIGMA.PLR))),
            Mul(WEIGHTS.TTL,
                ZScore(row.rtt, stats.TTL.mu, Max(stats.TTL.sigma, MIN_SIGMA.TTL)))),
        Mul(WEIGHTS.CPU,
            ZScore(row.cpu, stats.CPU.mu, Max(stats.CPU.sigma, MIN_SIGMA.CPU))))

\* C28: the dataset dashboard creates a fogNodeCharacterisation for every
\* node in every tick, so the sample count healthMetric sees is always 1, at
\* most the warm-up: the health_metric recorded is the unsmoothed weighted
\* sum of the z-scores, and the smoothing branch of healthMetric is never
\* taken
C28_AlwaysFirstSample ==
    IsDatasetTick =>
        \A n \in AllNodes :
            /\ ret.counts[n] = 1
            /\ ret.counts[n] <= warmup_samples
            /\ LatestRow(n).health_metric = UnsmoothedHealth(LatestRow(n), UsedStats(n))

\* the last tick of the run, with a health metric other than zero recorded
C28_Witness ==
    /\ IsDatasetTick
    /\ time_step = MaxTicks
    /\ \E n \in AllNodes :
          /\ ret.counts[n] = 1
          /\ LatestRow(n).health_metric # Zero

-----------------------------------------------------------------------------
(* The dataset dashboard: the first tick *)

\* the first tick of a dashboard started without a snapshot has just ended
IsFirstTick == IsDatasetTick /\ time_step = 1

\* the statistics the tick used for the node hold one value, which is the
\* mean, and have the initial deviations
IsFirstUpdate(stats, row) ==
    /\ \A m \in Metrics : stats[m].n = 1 /\ stats[m].sigma = INITIAL_SIGMA[m]
    /\ stats.PLR.mu = row.plr
    /\ stats.TTL.mu = row.rtt
    /\ stats.CPU.mu = row.cpu

\* the row of a first update: a health metric of zero, the naive score as
\* the threshold, and "FAULTY" when that score is positive
IsFirstRow(row) ==
    /\ row.health_metric = Zero
    /\ row.health_threshold = NaiveScore(row)
    /\ Less(Zero, NaiveScore(row)) => row.health_status = "FAULTY"

\* C29: for a node without statistics the first muAndsigma_per_node makes
\* the mean the value itself, so healthMetric on the returned mu and sigma
\* gives exactly 0; on the first tick of the dataset dashboard without a
\* snapshot every node whose naive weighted score is positive is therefore
\* recorded as "FAULTY"
C29_FirstTickFaulty ==
    IsFirstTick =>
        \A n \in AllNodes :
            /\ Len(RowsOf(n)) = 1
            /\ IsFirstUpdate(UsedStats(n), LatestRow(n))
            /\ IsFirstRow(LatestRow(n))

\* after the first tick every node has a positive naive score and is
\* recorded as "FAULTY" with a health metric of zero
C29_Witness ==
    /\ IsFirstTick
    /\ \A n \in AllNodes :
          /\ Less(Zero, NaiveScore(LatestRow(n)))
          /\ LatestRow(n).health_metric = Zero
          /\ LatestRow(n).health_status = "FAULTY"
    /\ \E n \in AllNodes : LatestRow(n).cpu # R(50)

=============================================================================
